---- MODULE Spec2Model ----
(***************************************************************************)
(* A state-machine model of the SpessaSynth worklet sequencer's seek and   *)
(* resume logic (_playTo, play, setTimeTicks, _recalculateStartTime), of   *)
(* a voice's volume envelope, of the on-screen keyboard and of the audio   *)
(* export dialog.                                                          *)
(*                                                                         *)
(* JavaScript numbers that hold times are modelled as exact rationals      *)
(* <<numerator, denominator>>; `undefined` is Undefined for integers and   *)
(* RUndefined for times.  Arrays are 0-based functions, as in the source.  *)
(***************************************************************************)
EXTENDS Integers, Sequences, FiniteSets, TLC

VARIABLES
    tracks,                 \* this.tracks: track index -> sequence of events
    sendMIDIMessages,       \* this.sendMIDIMessages: passthrough mode
    playbackRate,           \* this._playbackRate
    currentTime,            \* the audio clock of the worklet scope (seconds)
    oneTickToSeconds,       \* this.oneTickToSeconds
    playedTime,             \* this.playedTime
    eventIndex,             \* this.eventIndex: track index -> cursor
    absoluteStartTime,      \* this.absoluteStartTime
    pausedTime,             \* this.pausedTime
    playingNotes,           \* this.playingNotes
    midiPorts,              \* this.midiPorts: track index -> port
    midiPortChannelOffsets, \* this.midiPortChannelOffsets: port -> offset
    processHandler,         \* whether the tick handler is installed
    synth,                  \* the in-process synth's channel state
    trace,                  \* calls made by the most recent handler, in order
    lastCall,               \* the most recent handler, its argument and result
    voice,                  \* a WorkletVoice and its volumeEnvelope
    lastEnv,                \* the most recent call on the envelope
    keyboard,               \* the MidiKeyboard and the notes it has sounding
    pointer,                \* the key under the mouse pointer, if any
    lastKey,                \* the most recent input of the keyboard
    manager,                \* the Manager's export state and notifications
    lastExport              \* the most recent step of the export dialog

vars == <<tracks, sendMIDIMessages, playbackRate, currentTime, oneTickToSeconds,
          playedTime, eventIndex, absoluteStartTime, pausedTime, playingNotes,
          midiPorts, midiPortChannelOffsets, processHandler, synth, trace,
          lastCall, voice, lastEnv, keyboard, pointer, lastKey,
          manager, lastExport>>

kbdVars == <<keyboard, pointer, lastKey>>
exportVars == <<manager, lastExport>>

----------------------------------------------------------------------------
(* Numbers *)

Undefined == 0 - 1

RECURSIVE GCD(_, _)
GCD(a, b) == IF b = 0 THEN a ELSE GCD(b, a % b)

Abs(x) == IF x < 0 THEN 0 - x ELSE x

\* the rational n/d in lowest terms with a positive denominator
Rat(n, d) ==
    LET g == GCD(Abs(n), Abs(d))
        s == IF d < 0 THEN 0 - 1 ELSE 1
    IN  <<(s * n) \div g, (s * d) \div g>>

RUndefined == <<0, 0>>
RZero == <<0, 1>>
RInt(n) == <<n, 1>>
RAdd(a, b) == Rat(a[1] * b[2] + b[1] * a[2], a[2] * b[2])
RSub(a, b) == Rat(a[1] * b[2] - b[1] * a[2], a[2] * b[2])
RMul(a, b) == Rat(a[1] * b[1], a[2] * b[2])
RDiv(a, b) == Rat(a[1] * b[2], a[2] * b[1])
RLess(a, b) == a[1] * b[2] < b[1] * a[2]
RGeq(a, b) == ~RLess(a, b)

\* msb << 7 | lsb for 7-bit data bytes (no overlapping bits), x >> 7, x & 0x7F
Shl7Or(msb, lsb) == msb * 128 + lsb
Shr7(x) == x \div 128
And7F(x) == x % 128

\* the elements of a set of integers, ascending
RECURSIVE SortedSeq(_)
SortedSeq(S) ==
    IF S = {} THEN <<>>
    ELSE LET m == CHOOSE x \in S : \A y \in S : x <= y
         IN  <<m>> \o SortedSeq(S \ {m})

----------------------------------------------------------------------------
(* Tables of midi_message.js *)

midiControllers == [
    bankSelect |-> 0, dataEntryMsb |-> 6, mainVolume |-> 7, pan |-> 10,
    expressionController |-> 11, lsbForControl0BankSelect |-> 32,
    lsbForControl6DataEntry |-> 38, releaseTime |-> 72, brightness |-> 74,
    effects1Depth |-> 91, dataIncrement |-> 96, dataDecrement |-> 97,
    NRPNLsb |-> 98, NRPNMsb |-> 99, RPNLsb |-> 100, RPNMsb |-> 101,
    resetAllControllers |-> 121 ]

messageTypes == [
    noteOff |-> 128, noteOn |-> 144, controllerChange |-> 176,
    programChange |-> 192, pitchBend |-> 224,
    midiPort |-> 33, endOfTrack |-> 47, reset |-> 255 ]

\* getEvent: a channel voice status byte splits into status and channel;
\* a meta event keeps its byte and has channel -1
getEvent(statusByte) ==
    IF statusByte >= 128 /\ statusByte < 240
    THEN [status |-> (statusByte \div 16) * 16, channel |-> statusByte % 16]
    ELSE [status |-> statusByte, channel |-> 0 - 1]

\* const defaultControllerArray = new Int16Array(127) and its six defaults
defaultControllerArrayLength == 127

defaultControllerArray ==
    [k \in 0 .. (defaultControllerArrayLength - 1) |->
        CASE k = midiControllers.mainVolume -> 100
          [] k = midiControllers.expressionController -> 127
          [] k = midiControllers.pan -> 64
          [] k = midiControllers.releaseTime -> 64
          [] k = midiControllers.brightness -> 64
          [] k = midiControllers.effects1Depth -> 40
          [] OTHER -> 0]

\* defaultControllerArray[k]: reading past the end of the typed array
\* yields undefined
DefaultAt(k) ==
    IF k \in DOMAIN defaultControllerArray THEN defaultControllerArray[k]
    ELSE Undefined

----------------------------------------------------------------------------
(* MIDI files: the parsed tracks handed to the sequencer *)

NumTracks == 2
MaxEvents == 2
TimeDivision == 1
NumPorts == 2

TrackIndexes == 0 .. (NumTracks - 1)

\* the channel voice and meta messages the files are built from
Alphabet == {
    [messageStatusByte |-> 144, messageData |-> <<60, 100>>],  \* note on
    [messageStatusByte |-> 224, messageData |-> <<1, 2>>],     \* pitch bend
    [messageStatusByte |-> 224, messageData |-> <<5, 3>>],
    [messageStatusByte |-> 176, messageData |-> <<7, 0>>],     \* main volume
    [messageStatusByte |-> 176, messageData |-> <<7, 100>>],
    [messageStatusByte |-> 176, messageData |-> <<127, 0>>],   \* poly mode on
    [messageStatusByte |-> 176, messageData |-> <<96, 1>>],    \* data increment
    [messageStatusByte |-> 176, messageData |-> <<0, 1>>],     \* bank select
    [messageStatusByte |-> 176, messageData |-> <<121, 0>>],   \* reset all
    [messageStatusByte |-> 192, messageData |-> <<5>>],        \* program change
    [messageStatusByte |-> 33, messageData |-> <<NumPorts - 1>>] } \* midi port

MidiEvent(ticks, msg) ==
    [ticks |-> ticks, messageStatusByte |-> msg.messageStatusByte,
     messageData |-> msg.messageData]

\* a placement of n messages: message i plays at tick i - 1 on track
\* body[i][2]. Without a MIDI port message the track of a message changes
\* nothing a handler reads, so only placements with one use a track past 0
UsesPort(body) ==
    \E i \in 1 .. Len(body) : body[i][1].messageStatusByte = messageTypes.midiPort

Bodies ==
    {body \in UNION {[1 .. n -> Alphabet \X TrackIndexes] : n \in 1 .. MaxEvents} :
        UsesPort(body) \/ \A i \in 1 .. Len(body) : body[i][2] = 0}

\* the events of track t, closed by the end-of-track meta event every track
\* of a standard MIDI file carries; track t ends t ticks after the last message
TrackOf(body, t) ==
    LET n == Len(body)
        idx == SortedSeq({i \in 1 .. n : body[i][2] = t})
    IN  [j \in 1 .. Len(idx) |-> MidiEvent(idx[j] - 1, body[idx[j]][1])]
        \o <<MidiEvent(n + t, [messageStatusByte |-> messageTypes.endOfTrack,
                           messageData |-> <<>>])>>

FileOf(body) == [t \in TrackIndexes |-> TrackOf(body, t)]

Files == {FileOf(body) : body \in Bodies}

\* the files of one message, for the runs that vary the playback rate
ShortFiles == {FileOf(body) : body \in {b \in Bodies : Len(b) = 1}}

\* this.midiData.lastVoiceEventTick and this.duration at the initial tempo
LastTick ==
    LET ends == {tracks[t][Len(tracks[t])].ticks : t \in TrackIndexes}
    IN  CHOOSE m \in ends : \A e \in ends : e <= m
Duration == Rat(LastTick * 60, 120 * TimeDivision)

----------------------------------------------------------------------------
(* The in-process synth and the trace of calls *)

\* a sparse table: the keys written since the last reset, any other key
\* holds its default
Put(f, key, v) == (key :> v) @@ f
Get(f, key, default) == IF key \in DOMAIN f THEN f[key] ELSE default
Without(f, keys) == [x \in (DOMAIN f) \ keys |-> f[x]]
Canonical(f, Default(_)) == Without(f, {x \in DOMAIN f : f[x] = Default(x)})

InitialChannelCount == 16
PitchWheelCentre == 8192

\* the synth's power-on controller vector
SynthDefaultController(k) ==
    CASE k = midiControllers.mainVolume -> 100
      [] k = midiControllers.expressionController -> 127
      [] k = midiControllers.pan -> 64
      [] k = midiControllers.releaseTime -> 64
      [] k = midiControllers.brightness -> 64
      [] k = midiControllers.effects1Depth -> 40
      [] OTHER -> 0

SynthPowerOn(channels) ==
    [channels |-> channels, controllers |-> <<>>, pitchWheel |-> <<>>,
     program |-> <<>>, voices |-> {}]

\* what a channel of the synth holds
SynthController(sy, c, k) == Get(sy.controllers, <<c, k>>, SynthDefaultController(k))
SynthPitchWheel(sy, c) == Get(sy.pitchWheel, c, PitchWheelCentre)
SynthProgram(sy, c) == Get(sy.program, c, 0)

\* every channel's {program, controllers (bank, RPN and NRPN selects among
\* them), pitch wheel}, with defaults left out
SynthChannelState(sy) ==
    [controllers |-> Canonical(sy.controllers,
                               LAMBDA x : SynthDefaultController(x[2])),
     pitchWheel |-> Canonical(sy.pitchWheel, LAMBDA x : PitchWheelCentre),
     program |-> Canonical(sy.program, LAMBDA x : 0)]

Entry(this, to, call, args, site) ==
    [to |-> to, call |-> call, args |-> args, site |-> site, depth |-> this.depth]

emit(this, to, call, args, site) ==
    [this EXCEPT !.trace = Append(@, Entry(this, to, call, args, site))]

synth_resetAllControllers(this, site) ==
    emit([this EXCEPT !.synth = SynthPowerOn(this.synth.channels)],
         "synth", "resetAllControllers", <<>>, site)

synth_controllerChange(this, c, k, v, site) ==
    LET sy == this.synth
        cc == IF c >= sy.channels THEN sy.controllers
              ELSE IF k = midiControllers.resetAllControllers
              THEN Without(sy.controllers, {x \in DOMAIN sy.controllers : x[1] = c})
              ELSE Put(sy.controllers, <<c, k>>, v)
    IN  emit([this EXCEPT !.synth.controllers = cc],
             "synth", "controllerChange", <<c, k, v>>, site)

synth_pitchWheel(this, c, msb, lsb, site) ==
    LET sy == this.synth
        pw == IF c >= sy.channels THEN sy.pitchWheel
              ELSE Put(sy.pitchWheel, c, Shl7Or(msb, lsb))
    IN  emit([this EXCEPT !.synth.pitchWheel = pw],
             "synth", "pitchWheel", <<c, msb, lsb>>, site)

synth_programChange(this, c, program, site) ==
    LET sy == this.synth
        pg == IF c >= sy.channels THEN sy.program ELSE Put(sy.program, c, program)
    IN  emit([this EXCEPT !.synth.program = pg],
             "synth", "programChange", <<c, program>>, site)

synth_noteOn(this, c, midiNote, velocity, site) ==
    emit([this EXCEPT !.synth.voices = @ \cup {<<c, midiNote>>}],
         "synth", "noteOn", <<c, midiNote, velocity>>, site)

synth_stopAll(this, site) ==
    emit([this EXCEPT !.synth.voices = {}], "synth", "stopAll", <<>>, site)

\* this.sendMIDIMessage(bytes): the bytes go to the external sink
sendMIDIMessage(this, bytes, site) == emit(this, "sink", "send", bytes, site)

\* this.post(type): a notification to the main thread
post(this, type, site) == emit(this, "main", type, <<>>, site)

----------------------------------------------------------------------------
(* The sequencer's helpers *)

\* the sequencer object, gathered from the variables
This ==
    [now |-> currentTime, oneTickToSeconds |-> oneTickToSeconds,
     playedTime |-> playedTime, eventIndex |-> eventIndex,
     absoluteStartTime |-> absoluteStartTime, pausedTime |-> pausedTime,
     playingNotes |-> playingNotes, midiPorts |-> midiPorts,
     midiPortChannelOffsets |-> midiPortChannelOffsets,
     processHandler |-> processHandler, synth |-> synth,
     trace |-> <<>>, depth |-> 0]

NoEvent == [ticks |-> Undefined, messageStatusByte |-> Undefined, messageData |-> <<>>]

\* this.tracks[trackIndex][this.eventIndex[trackIndex]]
EventAt(this, trackIndex) ==
    IF this.eventIndex[trackIndex] < Len(tracks[trackIndex])
    THEN tracks[trackIndex][this.eventIndex[trackIndex] + 1]
    ELSE NoEvent

\* the track whose next event has the smallest tick; the lowest index on a
\* tie, and 0 when every cursor is past its track's end
_findFirstEventIndex(this) ==
    LET live == {t \in TrackIndexes : this.eventIndex[t] < Len(tracks[t])}
    IN  IF live = {} THEN 0
        ELSE CHOOSE t \in live :
                \A u \in live :
                    \/ EventAt(this, t).ticks < EventAt(this, u).ticks
                    \/ EventAt(this, t).ticks = EventAt(this, u).ticks /\ t <= u

\* this._resetTimers(): played time to 0 and every cursor to its track's start
_resetTimers(this) ==
    emit([this EXCEPT !.playedTime = RZero,
                      !.eventIndex = [t \in TrackIndexes |-> 0]],
         "seq", "_resetTimers", <<>>, "_resetTimers")

\* this.stop(): the tick handler is removed and every voice is released
stop(this, site) ==
    synth_stopAll(emit([this EXCEPT !.processHandler = FALSE],
                       "seq", "stop", <<>>, site), "stop")

\* this.midiPortChannelOffsets[this.midiPorts[trackIndex]] || 0
PortOffset(this, trackIndex) ==
    Get(this.midiPortChannelOffsets, this.midiPorts[trackIndex], 0)

\* a MIDI port event: the track moves to the port; a port seen for the first
\* time gets the next block of 16 synth channels, added when missing
assignMidiPort(this, trackIndex, port) ==
    LET known == port \in DOMAIN this.midiPortChannelOffsets
        offset == 16 * Cardinality(DOMAIN this.midiPortChannelOffsets)
        grown == IF this.synth.channels < offset + 16 THEN offset + 16
                 ELSE this.synth.channels
    IN  IF known THEN [this EXCEPT !.midiPorts[trackIndex] = port]
        ELSE [this EXCEPT !.midiPorts[trackIndex] = port,
                          !.midiPortChannelOffsets = Put(@, port, offset),
                          !.synth.channels = grown]

\* this._processEvent(event, trackIndex): normal dispatch of one event. In
\* passthrough mode a channel voice message goes to the sink as raw bytes;
\* otherwise it is applied to synth channel (event channel + port offset)
_processEvent(this, event, trackIndex, site) ==
    LET info == getEvent(event.messageStatusByte)
        d == event.messageData
        channel == info.channel + PortOffset(this, trackIndex)
    IN  IF sendMIDIMessages /\ event.messageStatusByte >= 128
                            /\ event.messageStatusByte < 240
        THEN sendMIDIMessage(this, <<event.messageStatusByte>> \o d, site)
        ELSE CASE info.status = messageTypes.noteOn ->
                    IF d[2] = 0 THEN this
                    ELSE [synth_noteOn(this, channel, d[1], d[2], site)
                            EXCEPT !.playingNotes = Append(@,
                                [midiNote |-> d[1], channel |-> channel,
                                 velocity |-> d[2]])]
               [] info.status = messageTypes.controllerChange ->
                    synth_controllerChange(this, channel, d[1], d[2], site)
               [] info.status = messageTypes.programChange ->
                    synth_programChange(this, channel, d[1], site)
               [] info.status = messageTypes.pitchBend ->
                    synth_pitchWheel(this, channel, d[2], d[1], site)
               [] info.status = messageTypes.midiPort ->
                    assignMidiPort(this, trackIndex, d[1])
               [] OTHER -> this

\* the getter this.currentTime: the captured time while paused, else the
\* audio clock translated by the start time and the playback rate
seqCurrentTime(this) ==
    IF this.pausedTime # RUndefined THEN this.pausedTime
    ELSE RMul(RSub(this.now, this.absoluteStartTime), playbackRate)

----------------------------------------------------------------------------
(* _playTo: replay from the start without notes, then restore the saved   *)
(* pitch bends and controllers                                            *)

Max(a, b) == IF a >= b THEN a ELSE b
Indexes(n) == [i \in 1 .. n |-> i - 1]

\* a variant that skips note-offs only
IsNoteMessage_OffOnly(status) == status = messageTypes.noteOff

\* case noteOn / case noteOff: skipped
IsNoteMessage(status) ==
    status = messageTypes.noteOn \/ status = messageTypes.noteOff

\* a variant that takes the data bytes in the other order
TrackedPitchBend_Swapped(event) ==
    Shl7Or(event.messageData[1], event.messageData[2])

\* pitchBends[info.channel] = event.messageData[1] << 7 | event.messageData[0]
TrackedPitchBend(event) == Shl7Or(event.messageData[2], event.messageData[1])

\* the controllers that are not skipped: forwarded where they occur
IsForwardedController(controllerNumber) ==
    \/ controllerNumber = midiControllers.dataDecrement
    \/ controllerNumber = midiControllers.dataEntryMsb
    \/ controllerNumber = midiControllers.dataDecrement
    \/ controllerNumber = midiControllers.lsbForControl6DataEntry
    \/ controllerNumber = midiControllers.RPNLsb
    \/ controllerNumber = midiControllers.RPNMsb
    \/ controllerNumber = midiControllers.NRPNLsb
    \/ controllerNumber = midiControllers.NRPNMsb
    \/ controllerNumber = midiControllers.bankSelect
    \/ controllerNumber = midiControllers.lsbForControl0BankSelect
    \/ controllerNumber = midiControllers.resetAllControllers

\* the channel a forwarded controller change is sent to
ForwardedChannel(this, info, trackIndex) == info.channel

\* the channel a skipped controller change is saved under
DeferredChannel(this, info, trackIndex) ==
    info.channel + PortOffset(this, trackIndex)

\* savedControllers: rows holds the defined rows; a row holds the indexes
\* written, every other index of the row keeps the value copied from
\* defaultControllerArray by Array.from
InitialSaved ==
    [len |-> 16, rows |-> [c \in 0 .. 15 |-> <<>>]]

RowLength(row) ==
    IF DOMAIN row = {} THEN defaultControllerArrayLength
    ELSE Max(defaultControllerArrayLength,
             1 + (CHOOSE k \in DOMAIN row : \A j \in DOMAIN row : j <= k))

RowValue(row, index) == IF index \in DOMAIN row THEN row[index] ELSE DefaultAt(index)

\* savedControllers[channel][controllerNumber] = value, creating the row
SavedWrite(sc, channel, controllerNumber, value) ==
    LET row == IF channel \in DOMAIN sc.rows THEN sc.rows[channel] ELSE <<>>
    IN  [len |-> Max(sc.len, channel + 1),
         rows |-> Put(sc.rows, channel, Put(row, controllerNumber, value))]

\* while (channels > savedControllers.length) savedControllers.push(...)
SavedGrow(sc, channels) ==
    IF channels > sc.len
    THEN [len |-> channels,
          rows |-> [c \in (sc.len .. (channels - 1)) |-> <<>>] @@ sc.rows]
    ELSE sc

\* a variant that stops only after the target tick
ReachedTarget_After(this, event, time, ticks) ==
    IF ticks # Undefined
    THEN event.ticks > ticks
    ELSE RGeq(this.playedTime, time)

\* ticks given: event.ticks >= ticks; else this.playedTime >= time
ReachedTarget(this, event, time, ticks) ==
    IF ticks # Undefined THEN event.ticks >= ticks
    ELSE RGeq(this.playedTime, time)

\* the switch on the event's status
PlayToEvent(L, event, trackIndex) ==
    LET this == L.this
        info == getEvent(event.messageStatusByte)
        d == event.messageData
    IN  CASE IsNoteMessage(info.status) -> L
          [] info.status = messageTypes.pitchBend ->
                [L EXCEPT !.pitchBends[info.channel] = TrackedPitchBend(event)]
          [] info.status = messageTypes.controllerChange ->
                IF IsForwardedController(d[1])
                THEN IF sendMIDIMessages
                     THEN [L EXCEPT !.this = sendMIDIMessage(this,
                            <<messageTypes.controllerChange
                                + ForwardedChannel(this, info, trackIndex),
                              d[1], d[2]>>, "_playTo.replay")]
                     ELSE [L EXCEPT !.this = synth_controllerChange(this,
                            ForwardedChannel(this, info, trackIndex),
                            d[1], d[2], "_playTo.replay")]
                ELSE [L EXCEPT !.savedControllers =
                        SavedWrite(@, DeferredChannel(this, info, trackIndex),
                                   d[1], d[2])]
          [] info.status = messageTypes.midiPort ->
                LET t1 == _processEvent(this, event, trackIndex, "_playTo.replay")
                IN  [L EXCEPT !.this = t1,
                              !.savedControllers = SavedGrow(@, t1.synth.channels)]
          [] OTHER ->
                [L EXCEPT !.this =
                    _processEvent(this, event, trackIndex, "_playTo.replay")]

\* the end of a pass: this.eventIndex[trackIndex]++, then the next event
\* is looked up; none left: stop() and return false, else the played time
\* moves on to it
PlayToAdvance(L1, t2, event, nextEvent) ==
    IF nextEvent = NoEvent
    THEN [L1 EXCEPT !.this = stop(t2, "_playTo.eof"), !.status = "eof"]
    ELSE [L1 EXCEPT !.this = [t2 EXCEPT !.playedTime =
            RAdd(@, RMul(t2.oneTickToSeconds,
                         RInt(nextEvent.ticks - event.ticks)))]]

PlayToNext(L1, t2, event) ==
    PlayToAdvance(L1, t2, event, EventAt(t2, _findFirstEventIndex(t2)))

\* consumed: the positions <<track, index>> the loop has passed, in order
PlayToReplay(L1, event, trackIndex) ==
    PlayToNext([L1 EXCEPT !.consumed =
                    Append(@, <<trackIndex, L1.this.eventIndex[trackIndex] + 1>>)],
               [L1.this EXCEPT !.eventIndex[trackIndex] = @ + 1], event)

\* one pass of the while(true) loop, the next event being on trackIndex
PlayToPass(L, time, ticks, trackIndex, event) ==
    IF ReachedTarget(L.this, event, time, ticks)
    THEN [L EXCEPT !.status = "break"]
    ELSE PlayToReplay(PlayToEvent(L, event, trackIndex), event, trackIndex)

PlayToTrack(L, time, ticks, trackIndex) ==
    PlayToPass(L, time, ticks, trackIndex, EventAt(L.this, trackIndex))

PlayToStep(L, time, ticks) ==
    PlayToTrack(L, time, ticks, _findFirstEventIndex(L.this))

RECURSIVE PlayToLoop(_, _, _)
PlayToLoop(L, time, ticks) ==
    IF L.status # "loop" THEN L
    ELSE PlayToLoop(PlayToStep(L, time, ticks), time, ticks)

\* passthrough: which indexes of a row are sent for channelNumber
PassthroughSends(row, channelNumber, index) ==
    RowValue(row, index) # DefaultAt(channelNumber)

\* direct: which indexes of a row are sent
DirectSends(row, channelNumber, index) ==
    RowValue(row, index) # DefaultAt(index)

\* the bytes of the pitch bend message sent for a channel
PitchBendBytes(channelNumber, bend) ==
    <<messageTypes.pitchBend + channelNumber, And7F(bend), Shr7(bend)>>

\* the (msb, lsb) handed to synth.pitchWheel
PitchWheelArgs(bend) == <<Shr7(bend), And7F(bend)>>

\* the indexes of a row that forEach sends, ascending
PassthroughSent(row, channelNumber) ==
    SelectSeq(Indexes(RowLength(row)),
              LAMBDA index : PassthroughSends(row, channelNumber, index))

\* the controller change messages of one row, in the order sent
PassthroughMessages(depth, channelNumber, row, sent) ==
    [i \in 1 .. Len(sent) |->
        [to |-> "sink", call |-> "send",
         args |-> <<messageTypes.controllerChange + channelNumber,
                    sent[i], RowValue(row, sent[i])>>,
         site |-> "_playTo.batch", depth |-> depth]]

PassthroughRowMessages(depth, channelNumber, row) ==
    PassthroughMessages(depth, channelNumber, row,
                        PassthroughSent(row, channelNumber))

\* PassthroughRowMessages of a row no event wrote to, per channel and depth
PassthroughUnwritten ==
    [c \in 0 .. 15 |-> [depth \in 0 .. 1 |-> PassthroughRowMessages(depth, c, <<>>)]]

\* the messages of one channel in passthrough mode: the saved pitch bend,
\* then every index of the row that is sent
PassthroughRow(this, channelNumber, bend, row) ==
    [this EXCEPT !.trace = @
        \o <<Entry(this, "sink", "send", PitchBendBytes(channelNumber, bend),
                   "_playTo.batch")>>
        \o (IF row = <<>> THEN PassthroughUnwritten[channelNumber][this.depth]
            ELSE PassthroughRowMessages(this.depth, channelNumber, row))]

\* restoring in passthrough mode, for all 16 channels
RECURSIVE BatchPassthrough(_, _, _, _)
BatchPassthrough(this, pitchBends, sc, channelNumber) ==
    IF channelNumber >= 16 THEN this
    ELSE BatchPassthrough(
            PassthroughRow(this, channelNumber, pitchBends[channelNumber],
                           sc.rows[channelNumber]),
            pitchBends, sc, channelNumber + 1)

RECURSIVE ControllerChanges(_, _, _, _, _)
ControllerChanges(this, channelNumber, row, sent, i) ==
    IF i > Len(sent) THEN this
    ELSE ControllerChanges(
            synth_controllerChange(this, channelNumber, sent[i],
                                   RowValue(row, sent[i]), "_playTo.batch"),
            channelNumber, row, sent, i + 1)

DirectPitchBend(this, pitchBends, channelNumber) ==
    IF channelNumber \in DOMAIN pitchBends
    THEN synth_pitchWheel(this, channelNumber,
                          PitchWheelArgs(pitchBends[channelNumber])[1],
                          PitchWheelArgs(pitchBends[channelNumber])[2],
                          "_playTo.batch")
    ELSE this

\* the indexes of a row that forEach sends, ascending
DirectSent(row, channelNumber) ==
    SelectSeq(Indexes(RowLength(row)),
              LAMBDA index : DirectSends(row, channelNumber, index))

\* DirectSent of a row no event wrote to, per channel
DirectSentUnwritten == [c \in 0 .. (16 * NumPorts - 1) |-> DirectSent(<<>>, c)]

DirectRow(this, channelNumber, row) ==
    ControllerChanges(this, channelNumber, row,
        IF row = <<>> THEN DirectSentUnwritten[channelNumber]
        ELSE DirectSent(row, channelNumber), 1)

DirectControllers(this, sc, channelNumber) ==
    IF channelNumber \in DOMAIN sc.rows
    THEN DirectRow(this, channelNumber, sc.rows[channelNumber])
    ELSE this

\* restoring in direct mode, for all synth channels
RECURSIVE BatchDirect(_, _, _, _)
BatchDirect(this, pitchBends, sc, channelNumber) ==
    IF channelNumber >= this.synth.channels THEN this
    ELSE BatchDirect(
            DirectControllers(DirectPitchBend(this, pitchBends, channelNumber),
                              sc, channelNumber),
            pitchBends, sc, channelNumber + 1)

\* a variant that reports success at the end of the file
PlayToFinish_AlwaysTrue(L) ==
    [this |-> L.this, ret |-> TRUE, pitchBends |-> L.pitchBends,
     savedControllers |-> L.savedControllers, consumed |-> L.consumed]

\* after the loop: false at the end of the file, else the batch and true
PlayToFinish(L) ==
    IF L.status = "eof"
    THEN [this |-> L.this, ret |-> FALSE, pitchBends |-> L.pitchBends,
          savedControllers |-> L.savedControllers, consumed |-> L.consumed]
    ELSE [this |-> IF sendMIDIMessages
                   THEN BatchPassthrough(L.this, L.pitchBends,
                                         L.savedControllers, 0)
                   ELSE BatchDirect(L.this, L.pitchBends,
                                    L.savedControllers, 0),
          ret |-> TRUE, pitchBends |-> L.pitchBends,
          savedControllers |-> L.savedControllers, consumed |-> L.consumed]

\* the head of _playTo: tempo, reset, rewind and the empty tables
PlayToStart(this) ==
    _resetTimers(
        IF sendMIDIMessages
        THEN sendMIDIMessage(synth_resetAllControllers(this, "_playTo.reset"),
                             <<messageTypes.reset>>, "_playTo.reset")
        ELSE synth_resetAllControllers(this, "_playTo.reset"))

_playTo(this, time, ticks) ==
    PlayToFinish(PlayToLoop(
        [this |-> PlayToStart([this EXCEPT !.oneTickToSeconds =
                                Rat(60, 120 * TimeDivision)]),
         pitchBends |-> [c \in 0 .. 15 |-> PitchWheelCentre],
         savedControllers |-> InitialSaved,
         consumed |-> <<>>,
         status |-> "loop"], time, ticks))

----------------------------------------------------------------------------
(* play, setTimeTicks, _recalculateStartTime and the current-time setter *)

\* a variant that multiplies the time by the rate
_recalculateStartTime_Times(this, time) ==
    [this EXCEPT !.absoluteStartTime = RSub(this.now, RMul(time, playbackRate))]

\* this.absoluteStartTime = currentTime - time / this._playbackRate
_recalculateStartTime(this, time) ==
    [this EXCEPT !.absoluteStartTime = RSub(this.now, RDiv(time, playbackRate))]

\* this.playingNotes.forEach(n => this.synth.noteOn(...))
RECURSIVE ReplayNotes(_, _)
\* a variant that leaves out the first playing note
RECURSIVE ReplayNotes_SkipsFirst(_, _)
ReplayNotes_SkipsFirst(this, i) ==
    IF i + 1 > Len(this.playingNotes) THEN this
    ELSE LET n == this.playingNotes[i + 1]
         IN  ReplayNotes_SkipsFirst(
                synth_noteOn(this, n.channel, n.midiNote, n.velocity, "play"),
                i + 1)

ReplayNotes(this, i) ==
    IF i > Len(this.playingNotes) THEN this
    ELSE LET n == this.playingNotes[i]
         IN  ReplayNotes(synth_noteOn(this, n.channel, n.midiNote, n.velocity,
                                      "play"), i + 1)

\* the part of play() after the two early returns
Unpause(this) ==
    IF this.pausedTime # RUndefined
    THEN [_recalculateStartTime(this, this.pausedTime)
            EXCEPT !.pausedTime = RUndefined]
    ELSE this

Resume(this) == [ReplayNotes(Unpause(this), 1) EXCEPT !.processHandler = TRUE]

RECURSIVE play(_, _)
RECURSIVE setCurrentTime(_, _)

PlayBody(this, resetTime) ==
    IF resetTime THEN setCurrentTime(this, RZero)
    ELSE IF RGeq(seqCurrentTime(this), Duration) THEN setCurrentTime(this, RZero)
    ELSE Resume(this)

play(this, resetTime) == PlayBody(emit(this, "seq", "play", <<>>, "play"), resetTime)

\* a variant that keeps the time of the pause
SeekStart_KeepsPause(this, site) ==
    [stop(this, site) EXCEPT !.playingNotes = <<>>]

\* stop(), this.playingNotes = [], this.pausedTime = undefined
SeekStart(this, site) ==
    [stop(this, site) EXCEPT !.playingNotes = <<>>, !.pausedTime = RUndefined]

\* the tail of the setter: re-base the start time, then play and notify
\* unless the file is finished
SetCurrentTimeAfter(r, depth) ==
    [(IF ~r.ret THEN _recalculateStartTime(r.this, r.this.playedTime)
      ELSE post(play(_recalculateStartTime(r.this, r.this.playedTime), FALSE),
                "timeChange", "currentTime"))
        EXCEPT !.depth = depth]

\* the setter this.currentTime = time: a seek by time, with the steps of
\* setTimeTicks
setCurrentTime(this, time) ==
    SetCurrentTimeAfter(
        _playTo(SeekStart([this EXCEPT !.depth = @ + 1], "currentTime"),
                time, Undefined),
        this.depth)

\* a variant that posts the notification before play()
SetTimeTicksAfter_NotifyFirst(r) ==
    [r EXCEPT !.this =
        IF ~r.ret THEN _recalculateStartTime(r.this, r.this.playedTime)
        ELSE post(play(post(_recalculateStartTime(r.this, r.this.playedTime),
                            "timeChange", "setTimeTicks"),
                       FALSE),
                  "resetRendererIndexes", "setTimeTicks")]

\* the tail of setTimeTicks
SetTimeTicksAfter(r) ==
    [r EXCEPT !.this =
        IF ~r.ret THEN _recalculateStartTime(r.this, r.this.playedTime)
        ELSE post(post(play(_recalculateStartTime(r.this, r.this.playedTime),
                            FALSE),
                       "timeChange", "setTimeTicks"),
                  "resetRendererIndexes", "setTimeTicks")]

setTimeTicks(this, ticks) ==
    SetTimeTicksAfter(_playTo(SeekStart(this, "setTimeTicks"), RZero, ticks))

\* pause(): the played time is captured and the tick handler removed; no
\* voice is released
pause(this) ==
    emit([this EXCEPT !.pausedTime = this.playedTime, !.processHandler = FALSE],
         "main", "pause", <<>>, "pause")

\* the tick handler: dispatch every event that is due
RECURSIVE _processTick(_)

TickAdvance(t2, event, nextEvent) ==
    IF nextEvent = NoEvent
    THEN post(stop(t2, "_processTick"), "songEnded", "_processTick")
    ELSE _processTick([t2 EXCEPT !.playedTime =
            RAdd(@, RMul(t2.oneTickToSeconds,
                         RInt(nextEvent.ticks - event.ticks)))])

TickNext(t2, event) ==
    TickAdvance(t2, event, EventAt(t2, _findFirstEventIndex(t2)))

TickEvent(this, trackIndex, event) ==
    TickNext([_processEvent(this, event, trackIndex, "_processTick")
                EXCEPT !.eventIndex[trackIndex] = @ + 1], event)

TickTrack(this, trackIndex) ==
    TickEvent(this, trackIndex, EventAt(this, trackIndex))

_processTick(this) ==
    IF ~RLess(this.playedTime, seqCurrentTime(this)) THEN this
    ELSE TickTrack(this, _findFirstEventIndex(this))

----------------------------------------------------------------------------
(* JavaScript numbers of the volume envelope: exact rationals extended with  *)
(* Infinity <<1, 0>>, -Infinity <<-1, 0>> and NaN <<0, 0>>, with the         *)
(* arithmetic of IEEE 754 on them (the sign of a zero is not tracked: every  *)
(* zero divides as +0)                                                       *)

FNaN == <<0, 0>>
FInf == <<1, 0>>
FNegInf == <<0 - 1, 0>>
FInt(n) == <<n, 1>>

FIsNaN(a) == a = FNaN
FIsFinite(a) == a[2] # 0
Sgn(a) == IF a[1] > 0 THEN 1 ELSE IF a[1] < 0 THEN 0 - 1 ELSE 0

FNeg(a) == <<0 - a[1], a[2]>>

FAdd(a, b) ==
    IF FIsNaN(a) \/ FIsNaN(b) THEN FNaN
    ELSE IF FIsFinite(a) /\ FIsFinite(b) THEN RAdd(a, b)
    ELSE IF FIsFinite(a) THEN b
    ELSE IF FIsFinite(b) THEN a
    ELSE IF a = b THEN a ELSE FNaN

FSub(a, b) == FAdd(a, FNeg(b))

FMul(a, b) ==
    IF FIsNaN(a) \/ FIsNaN(b) THEN FNaN
    ELSE IF FIsFinite(a) /\ FIsFinite(b) THEN RMul(a, b)
    ELSE IF Sgn(a) = 0 \/ Sgn(b) = 0 THEN FNaN
    ELSE <<Sgn(a) * Sgn(b), 0>>

FDiv(a, b) ==
    IF FIsNaN(a) \/ FIsNaN(b) THEN FNaN
    ELSE IF ~FIsFinite(b)
         THEN (IF FIsFinite(a) THEN RZero ELSE FNaN)
    ELSE IF Sgn(b) = 0
         THEN (IF Sgn(a) = 0 THEN FNaN ELSE <<Sgn(a), 0>>)
    ELSE IF FIsFinite(a) THEN RDiv(a, b)
    ELSE <<Sgn(a) * Sgn(b), 0>>

\* a < b and a >= b: both false when either is NaN
FLess(a, b) ==
    /\ ~FIsNaN(a) /\ ~FIsNaN(b)
    /\ IF FIsFinite(a) \/ FIsFinite(b) THEN a[1] * b[2] < b[1] * a[2]
       ELSE a[1] < b[1]

FGeq(a, b) == ~FIsNaN(a) /\ ~FIsNaN(b) /\ ~FLess(a, b)

\* Math.floor
FFloor(a) == IF FIsFinite(a) THEN <<a[1] \div a[2], 1>> ELSE a

\* 2 ^ e for an integer e
RECURSIVE Pow2(_)
Pow2(e) ==
    IF e = 0 THEN <<1, 1>>
    ELSE IF e > 0 THEN RMul(<<2, 1>>, Pow2(e - 1))
    ELSE RMul(<<1, 2>>, Pow2(e + 1))

\* Math.log10 of a positive integer, in thousandths, from the table of
\* common logarithms of 1..10 and the product rule; an integer with a prime
\* factor past 7 takes the value of its predecessor
RECURSIVE Log10Int(_)
Log10Int(n) ==
    IF n <= 1 THEN 0
    ELSE IF n % 10 = 0 THEN 1000 + Log10Int(n \div 10)
    ELSE IF n % 2 = 0 THEN 301 + Log10Int(n \div 2)
    ELSE IF n % 3 = 0 THEN 477 + Log10Int(n \div 3)
    ELSE IF n % 5 = 0 THEN 699 + Log10Int(n \div 5)
    ELSE IF n % 7 = 0 THEN 845 + Log10Int(n \div 7)
    ELSE Log10Int(n - 1)

\* Math.log10: NaN below zero, -Infinity at zero
Log10(a) ==
    IF FIsNaN(a) \/ Sgn(a) < 0 THEN FNaN
    ELSE IF Sgn(a) = 0 THEN FNegInf
    ELSE IF ~FIsFinite(a) THEN FInf
    ELSE Rat(Log10Int(a[1]) - Log10Int(a[2]), 1000)

----------------------------------------------------------------------------
(* unit_converter.js: gains and times *)

\* a gain is a sum of terms k * 10 ^ (-db / 20), kept as the function
\* db -> k over the terms with k # 0, or is Infinity, -Infinity or NaN
GFinite(terms) == [kind |-> "finite", terms |-> terms]
GZero == GFinite(<<>>)
GNaN == [kind |-> "NaN", terms |-> <<>>]
GInf == [kind |-> "Infinity", terms |-> <<>>]
GNegInf == [kind |-> "-Infinity", terms |-> <<>>]

GSigned(sign) == IF sign > 0 THEN GInf ELSE IF sign < 0 THEN GNegInf ELSE GNaN

\* the sign of a gain of at most one term
GSgn(g) ==
    CASE g.kind = "Infinity" -> 1
      [] g.kind = "-Infinity" -> 0 - 1
      [] g.kind = "finite" /\ Cardinality(DOMAIN g.terms) = 1 ->
            Sgn(g.terms[CHOOSE db \in DOMAIN g.terms : TRUE])
      [] OTHER -> 0

\* decibelAttenuationToGain(db) = 10 ^ (-db / 20)
decibelAttenuationToGain(db) ==
    IF FIsNaN(db) THEN GNaN
    ELSE IF db = FInf THEN GZero
    ELSE IF db = FNegInf THEN GInf
    ELSE GFinite(db :> <<1, 1>>)

\* number * gain
GScale(r, g) ==
    IF FIsNaN(r) \/ g.kind = "NaN" THEN GNaN
    ELSE IF g.kind # "finite" \/ ~FIsFinite(r) THEN GSigned(Sgn(r) * GSgn(g))
    ELSE IF Sgn(r) = 0 THEN GZero
    ELSE GFinite([db \in DOMAIN g.terms |-> RMul(r, g.terms[db])])

\* gain + gain
GAdd(g, h) ==
    IF g.kind = "NaN" \/ h.kind = "NaN" THEN GNaN
    ELSE IF g.kind # "finite" /\ h.kind # "finite"
         THEN (IF g.kind = h.kind THEN g ELSE GNaN)
    ELSE IF g.kind # "finite" THEN g
    ELSE IF h.kind # "finite" THEN h
    ELSE LET sum(db) == RAdd(IF db \in DOMAIN g.terms THEN g.terms[db] ELSE RZero,
                             IF db \in DOMAIN h.terms THEN h.terms[db] ELSE RZero)
         IN  GFinite([db \in {x \in DOMAIN g.terms \cup DOMAIN h.terms :
                                    sum(x) # RZero} |-> sum(db)])

\* Math.log10(gain) for a gain of at most one term
GLog10(g) ==
    CASE g.kind = "NaN" -> FNaN
      [] g.kind = "Infinity" -> FInf
      [] g.kind = "-Infinity" -> FNaN
      [] g.terms = <<>> -> FNegInf
      [] Cardinality(DOMAIN g.terms) = 1 ->
            LET db == CHOOSE x \in DOMAIN g.terms : TRUE
            IN  FSub(Log10(g.terms[db]), FDiv(db, FInt(20)))
      [] OTHER -> FNaN

\* timecentsToSeconds(tc) = 2 ^ (tc / 1200), 0 for the sentinel -32768; the
\* exponent is resolved to whole octaves
timecentsToSeconds(tc) ==
    IF tc = 0 - 32768 THEN RZero ELSE Pow2(tc \div 1200)

----------------------------------------------------------------------------
(* WorkletVolumeEnvelope *)

DB_SILENCE == 100
PERCEIVED_DB_SILENCE == 96

\* a new WorkletVolumeEnvelope(sampleRate): the field initialisers
NewVolumeEnvelope(sampleRate) ==
    [sampleRate |-> sampleRate,
     currentSampleTime |-> 0,
     currentAttenuationDb |-> FInt(DB_SILENCE),
     state |-> 0,
     releaseStartDb |-> FInt(100),
     releaseStartTimeSamples |-> 0,
     currentReleaseGain |-> GFinite(RZero :> <<1, 1>>),
     attackDuration |-> RZero,
     decayDuration |-> RZero,
     releaseDuration |-> RZero,
     attenuation |-> RZero,
     sustainDb |-> RZero,
     delayEnd |-> RZero,
     attackEnd |-> RZero,
     holdEnd |-> RZero,
     decayEnd |-> RZero]

\* Math.floor(timecentsToSeconds(tc) * env.sampleRate)
timecentsToSamples(env, tc) ==
    FFloor(FMul(timecentsToSeconds(tc), FInt(env.sampleRate)))

\* attenuation and sustainDb
RecalculateLevels(env, g) ==
    [env EXCEPT !.attenuation = Rat(g.initialAttenuation, 10),
                !.sustainDb = FAdd(Rat(g.initialAttenuation, 10),
                                   Rat(g.sustainVolEnv, 10))]

\* (env.sustainDb - env.attenuation) / (100 - env.attenuation)
DecayFraction(env) ==
    FDiv(FSub(env.sustainDb, env.attenuation),
         FSub(FInt(100), env.attenuation))

\* attackDuration, decayDuration and releaseDuration
RecalculateDurations(env, g, targetKey) ==
    [env EXCEPT
        !.attackDuration = timecentsToSamples(env, g.attackVolEnv),
        !.decayDuration =
            FMul(timecentsToSamples(env,
                    g.decayVolEnv + (60 - targetKey) * g.keyNumToVolEnvDecay),
                 DecayFraction(env)),
        !.releaseDuration = timecentsToSamples(env, g.releaseVolEnv)]

\* delayEnd and attackEnd, then holdEnd, then decayEnd
RecalculateDelayAttack(env, g) ==
    [env EXCEPT
        !.delayEnd = timecentsToSamples(env, g.delayVolEnv),
        !.attackEnd = FAdd(env.attackDuration,
                           timecentsToSamples(env, g.delayVolEnv))]

\* a variant that ignores the key
RecalculateHold_Unscaled(env, g, targetKey) ==
    [env EXCEPT
        !.holdEnd = FAdd(timecentsToSamples(env, g.holdVolEnv), env.attackEnd)]

RecalculateHold(env, g, targetKey) ==
    [env EXCEPT
        !.holdEnd = FAdd(timecentsToSamples(env,
                            g.holdVolEnv + (60 - targetKey) * g.keyNumToVolEnvHold),
                         env.attackEnd)]

RecalculateDecayEnd(env) ==
    [env EXCEPT !.decayEnd = FAdd(env.decayDuration, env.holdEnd)]

RecalculateTimes(env, g, targetKey) ==
    RecalculateDecayEnd(
        RecalculateHold(
            RecalculateDelayAttack(
                RecalculateDurations(RecalculateLevels(env, g), g, targetKey),
                g),
            g, targetKey))

\* case 1: the gain the attack would have at the release, turned into dB
AttackReleaseDb(env) ==
    FMul(FMul(FInt(20),
              GLog10(GScale(
                FSub(FInt(1),
                     FDiv(FSub(env.attackEnd, FInt(env.releaseStartTimeSamples)),
                          env.attackDuration)),
                decibelAttenuationToGain(env.attenuation)))),
         FInt(0 - 1))

\* case 3
DecayReleaseDb(env) ==
    FAdd(FMul(FSub(FInt(1),
                   FDiv(FSub(env.decayEnd, FInt(env.releaseStartTimeSamples)),
                        env.decayDuration)),
              FSub(env.sustainDb, env.attenuation)),
         env.attenuation)

\* a variant that releases from hold at the sustain level
ReleaseStartDb_HoldAtSustain(env) ==
    CASE env.state = 0 -> FInt(DB_SILENCE)
      [] env.state = 1 -> AttackReleaseDb(env)
      [] env.state = 2 -> env.sustainDb
      [] env.state = 3 -> DecayReleaseDb(env)
      [] env.state = 4 -> env.sustainDb
      [] OTHER -> env.currentAttenuationDb

\* the switch on env.state of a voice in release
ReleaseStartDb(env) ==
    CASE env.state = 0 -> FInt(DB_SILENCE)
      [] env.state = 1 -> AttackReleaseDb(env)
      [] env.state = 2 -> env.attenuation
      [] env.state = 3 -> DecayReleaseDb(env)
      [] env.state = 4 -> env.sustainDb
      [] OTHER -> env.currentAttenuationDb

RecalculateRelease(env, isInRelease) ==
    IF isInRelease THEN [env EXCEPT !.releaseStartDb = ReleaseStartDb(env)]
    ELSE env

\* a variant that starts the envelope again
recalculate_Restarts(v) ==
    [v EXCEPT !.volumeEnvelope =
        [RecalculateRelease(
            RecalculateTimes(v.volumeEnvelope, v.modulatedGenerators, v.targetKey),
            v.isInRelease)
         EXCEPT !.state = 0, !.currentSampleTime = 0]]

\* WorkletVolumeEnvelope.recalculate(voice)
recalculate(v) ==
    [v EXCEPT !.volumeEnvelope =
        RecalculateRelease(
            RecalculateTimes(v.volumeEnvelope, v.modulatedGenerators, v.targetKey),
            v.isInRelease)]

\* WorkletVolumeEnvelope.startRelease(voice)
startRelease(v) ==
    recalculate([v EXCEPT
        !.volumeEnvelope.releaseStartTimeSamples =
            v.volumeEnvelope.currentSampleTime,
        !.volumeEnvelope.currentReleaseGain =
            decibelAttenuationToGain(v.volumeEnvelope.currentAttenuationDb)])

\* a variant without smoothing
InterpolatedAttenuation_Jumps(env, attenuationDb, smoothingFactor) ==
    attenuationDb

\* getInterpolatedGain: the smoothed attenuation
InterpolatedAttenuation(env, attenuationDb, smoothingFactor) ==
    FAdd(env.currentAttenuationDb,
         FMul(FSub(attenuationDb, env.currentAttenuationDb), smoothingFactor))

\* what one pass of a loop did to audioBuffer[filledBuffer]: "set" stores
\* 0, "scale" multiplies by gain; attenuationDb is the attenuation the pass
\* aimed at (NaN where it has none), time and state the envelope's clock and
\* stage when the pass began
Op(kind, gain, attenuationDb, env) ==
    [kind |-> kind, gain |-> gain, attenuationDb |-> attenuationDb,
     time |-> env.currentSampleTime, state |-> env.state]

\* A: the run of one apply call: the envelope, the operations on each index
\* of the buffer, filledBuffer, the last db of the release loop and whether
\* apply has returned
Written(A, env, op) ==
    [A EXCEPT !.env = env, !.buffer[A.filled + 1] = Append(@, op)]

\* a variant that steps over an index
Filled_SkipsIndex(A) ==
    [A EXCEPT !.env.currentSampleTime = @ + 1,
              !.filled = @ + 2,
              !.done = (A.filled + 2 >= Len(A.buffer))]

\* env.currentSampleTime++; if(++filledBuffer >= audioBuffer.length) return
Filled(A) ==
    [A EXCEPT !.env.currentSampleTime = @ + 1,
              !.filled = @ + 1,
              !.done = (A.filled + 1 >= Len(A.buffer))]

\* audioBuffer[filledBuffer] *= getInterpolatedGain(env, attenuationDb, f)
Interpolated(A, attenuationDb, smoothingFactor, begun) ==
    Written(A,
        [A.env EXCEPT !.currentAttenuationDb =
            InterpolatedAttenuation(A.env, attenuationDb, smoothingFactor)],
        Op("scale",
           decibelAttenuationToGain(
                InterpolatedAttenuation(A.env, attenuationDb, smoothingFactor)),
           attenuationDb, begun))

\* a variant that lets the delay through
DelaySample_Unmuted(A) ==
    Filled(Written(A, [A.env EXCEPT !.currentAttenuationDb = FInt(DB_SILENCE)],
                   Op("scale", GFinite(RZero :> <<1, 1>>), FNaN, A.env)))

\* case 0
DelaySample(A) ==
    Filled(Written(A, [A.env EXCEPT !.currentAttenuationDb = FInt(DB_SILENCE)],
                   Op("set", GZero, FNaN, A.env)))

\* a variant whose ramp falls
LinearAttenuation_Falling(env) ==
    FDiv(FSub(env.attackEnd, FInt(env.currentSampleTime)), env.attackDuration)

\* 1 - (env.attackEnd - env.currentSampleTime) / env.attackDuration
LinearAttenuation(env) ==
    FSub(FInt(1), FDiv(FSub(env.attackEnd, FInt(env.currentSampleTime)),
                       env.attackDuration))

\* case 1
AttackSample(A, decibelOffset) ==
    Filled(Written(A, [A.env EXCEPT !.currentAttenuationDb = A.env.attenuation],
                   Op("scale",
                      GScale(LinearAttenuation(A.env),
                             decibelAttenuationToGain(
                                FAdd(A.env.attenuation, decibelOffset))),
                      FNaN, A.env)))

\* case 2
HoldSample(A, decibelOffset, smoothingFactor) ==
    Filled(Interpolated(A, FAdd(A.env.attenuation, decibelOffset),
                        smoothingFactor, A.env))

\* (1 - (decayEnd - currentSampleTime) / decayDuration) * dbDifference
\*      + attenuation
NewAttenuation(env) ==
    FAdd(FMul(FSub(FInt(1),
                   FDiv(FSub(env.decayEnd, FInt(env.currentSampleTime)),
                        env.decayDuration)),
              FSub(env.sustainDb, env.attenuation)),
         env.attenuation)

\* while(env.currentSampleTime++ < env.decayEnd): the clock after the test
DecayTested(A) == [A EXCEPT !.env.currentSampleTime = @ + 1]

\* case 3, the body of the loop, entered with the clock the test left
DecayBody(A, decibelOffset, smoothingFactor, begun) ==
    Filled(Interpolated(A, FAdd(NewAttenuation(A.env), decibelOffset),
                        smoothingFactor, begun))

DecaySample(A, decibelOffset, smoothingFactor) ==
    DecayBody(DecayTested(A), decibelOffset, smoothingFactor, A.env)

\* case 4
SustainSample(A, decibelOffset, smoothingFactor) ==
    Filled(Interpolated(A, FAdd(A.env.sustainDb, decibelOffset),
                        smoothingFactor, A.env))

\* a variant that steps over two stages
NextStage_Thrice(A) == [A EXCEPT !.env.state = @ + 3]

\* env.state++
NextStage(A) == [A EXCEPT !.env.state = @ + 1]

\* one test of the loop of the case env.state is at, with its body or the
\* fall through to the next case; no case matches a state past 4
ApplyStep(A, decibelOffset, smoothingFactor) ==
    CASE A.env.state = 0 ->
            IF FLess(FInt(A.env.currentSampleTime), A.env.delayEnd)
            THEN DelaySample(A) ELSE NextStage(A)
      [] A.env.state = 1 ->
            IF FLess(FInt(A.env.currentSampleTime), A.env.attackEnd)
            THEN AttackSample(A, decibelOffset) ELSE NextStage(A)
      [] A.env.state = 2 ->
            IF FLess(FInt(A.env.currentSampleTime), A.env.holdEnd)
            THEN HoldSample(A, decibelOffset, smoothingFactor)
            ELSE NextStage(A)
      [] A.env.state = 3 ->
            IF FLess(FInt(A.env.currentSampleTime), A.env.decayEnd)
            THEN DecaySample(A, decibelOffset, smoothingFactor)
            ELSE NextStage(DecayTested(A))
      [] A.env.state = 4 ->
            SustainSample(A, decibelOffset, smoothingFactor)
      [] OTHER -> [A EXCEPT !.done = TRUE]

RECURSIVE ApplyLoop(_, _, _)
ApplyLoop(A, decibelOffset, smoothingFactor) ==
    IF A.done THEN A
    ELSE ApplyLoop(ApplyStep(A, decibelOffset, smoothingFactor),
                   decibelOffset, smoothingFactor)

\* db = (elapsedRelease / env.releaseDuration) * dbDifference
\*      + env.releaseStartDb
ReleaseDb(env, elapsedRelease) ==
    FAdd(FMul(FDiv(FInt(elapsedRelease), env.releaseDuration),
              FSub(FInt(DB_SILENCE), env.releaseStartDb)),
         env.releaseStartDb)

\* env.currentReleaseGain += (gain - env.currentReleaseGain) * factor
ReleaseGain(env, gain, releaseSmoothingFactor) ==
    GAdd(env.currentReleaseGain,
         GScale(releaseSmoothingFactor,
                GAdd(gain, GScale(FInt(0 - 1), env.currentReleaseGain))))

ReleaseWritten(A, db, gain) ==
    [Written(A, [A.env EXCEPT !.currentReleaseGain = gain],
             Op("scale", gain, db, A.env))
        EXCEPT !.db = db]

\* one pass of the release loop
ReleaseSample(A, elapsedRelease, decibelOffset, releaseSmoothingFactor) ==
    Filled(ReleaseWritten(A, ReleaseDb(A.env, elapsedRelease),
        ReleaseGain(A.env,
            decibelAttenuationToGain(
                FAdd(ReleaseDb(A.env, elapsedRelease), decibelOffset)),
            releaseSmoothingFactor)))

\* for (let i = 0; i < audioBuffer.length; i++)
RECURSIVE ReleaseLoop(_, _, _, _)
ReleaseLoop(A, elapsedRelease, decibelOffset, releaseSmoothingFactor) ==
    IF A.filled >= Len(A.buffer) THEN A
    ELSE ReleaseLoop(
            ReleaseSample(A, elapsedRelease, decibelOffset,
                          releaseSmoothingFactor),
            elapsedRelease + 1, decibelOffset, releaseSmoothingFactor)

\* if(db >= PERCEIVED_DB_SILENCE) voice.finished = true
ReleaseFinished(v, A) ==
    [voice |-> [v EXCEPT !.volumeEnvelope = A.env,
                         !.finished = IF FGeq(A.db, FInt(PERCEIVED_DB_SILENCE))
                                      THEN TRUE ELSE @],
     buffer |-> A.buffer]

ApplyReturned(v, A) ==
    [voice |-> [v EXCEPT !.volumeEnvelope = A.env], buffer |-> A.buffer]

ApplyStart(v, length) ==
    [env |-> v.volumeEnvelope, buffer |-> [i \in 1 .. length |-> <<>>],
     filled |-> 0, db |-> RZero, done |-> FALSE]

\* WorkletVolumeEnvelope.apply(voice, audioBuffer, centibelOffset,
\* smoothingFactor) on a buffer of `length` samples
apply(v, length, centibelOffset, smoothingFactor) ==
    IF v.isInRelease
    THEN ReleaseFinished(v,
            ReleaseLoop(ApplyStart(v, length),
                v.volumeEnvelope.currentSampleTime
                    - v.volumeEnvelope.releaseStartTimeSamples,
                Rat(centibelOffset, 10),
                FMul(smoothingFactor, FInt(10))))
    ELSE ApplyReturned(v,
            ApplyLoop(ApplyStart(v, length), Rat(centibelOffset, 10),
                      smoothingFactor))

----------------------------------------------------------------------------
(* Voices *)

EnvSampleRate == 2
MaxBufferLength == 3
MaxSampleTime == 4
MaxReleaseTime == 3
MaxChanges == 1

\* the generators recalculate reads, with the key of the note
Generators(att, sus, delay, attack, hold, decay, release, keyHold, keyDecay) ==
    [initialAttenuation |-> att, sustainVolEnv |-> sus, delayVolEnv |-> delay,
     attackVolEnv |-> attack, holdVolEnv |-> hold, decayVolEnv |-> decay,
     releaseVolEnv |-> release, keyNumToVolEnvHold |-> keyHold,
     keyNumToVolEnvDecay |-> keyDecay]

Note(key, g) == [targetKey |-> key, modulatedGenerators |-> g]

\* the notes of the model: every stage one or more samples long; every
\* stage empty with a sustain past 100 dB; an instant release after a delay;
\* an initial attenuation of 100 dB and of 120 dB; hold and decay scaled by
\* the key
Notes == {
    Note(60, Generators(0, 500, 0 - 1200, 0, 0 - 1200, 1200, 0, 0, 0)),
    Note(60, Generators(200, 1000, 0 - 32768, 0 - 32768, 0 - 32768,
                        0 - 32768, 0 - 1200, 0, 0)),
    Note(60, Generators(0, 500, 0, 0 - 1200, 0 - 32768, 0, 0 - 32768, 0, 0)),
    Note(60, Generators(1000, 0, 0 - 32768, 0 - 32768, 0 - 32768, 1200,
                        0 - 1200, 0, 0)),
    Note(60, Generators(1200, 500, 0 - 32768, 0 - 32768, 0 - 32768, 1200,
                        0 - 1200, 0, 0)),
    Note(48, Generators(0, 500, 0 - 32768, 0 - 1200, 0 - 2400, 0, 0 - 1200,
                        100, 100)) }

CentibelOffsets == {0, 200}
SmoothingFactors == {<<1, 2>>}

\* a voice as the channel creates it on a note-on: a new envelope,
\* recalculated once
NewVoice(note) ==
    recalculate(
        [isInRelease |-> FALSE, finished |-> FALSE,
         targetKey |-> note.targetKey,
         modulatedGenerators |-> note.modulatedGenerators,
         volumeEnvelope |-> NewVolumeEnvelope(EnvSampleRate)])

IdleVoice ==
    NewVoice(Note(60, Generators(0, 0, 0 - 32768, 0 - 32768, 0 - 32768,
                                 0 - 32768, 0 - 32768, 0, 0)))

NoEnvCall ==
    [op |-> "noteOn", before |-> IdleVoice, length |-> 0, centibelOffset |-> 0,
     smoothingFactor |-> RZero, buffer |-> <<>>, changes |-> 0]

----------------------------------------------------------------------------
(* MidiKeyboard: the on-screen keyboard (midi_keyboard.js)                 *)

KEYBOARD_VELOCITY == 126

NumKeys == 2
NumChannels == 2
MaxHeld == 3

\* the keys created by the constructor and the options of the channel
\* selector
Keys == 0 .. (NumKeys - 1)
Channels == 0 .. (NumChannels - 1)

\* colours are tuples; NoColor is the empty string of a style without one
NoColor == <<"">>

\* channelColors[channel], and the colour pressNote computes from it and
\* from the brightness
channelColors(channel) == <<"color", channel>>
Shade(channel, velocity, volume, expression) ==
    <<"rgba", channel, velocity, volume, expression>>

\* Array.prototype.indexOf and findLastIndex: 0-based, -1 when absent
indexOf(seq, x) ==
    IF \E i \in 1 .. Len(seq) : seq[i] = x
    THEN (CHOOSE i \in 1 .. Len(seq) :
            seq[i] = x /\ \A j \in 1 .. (i - 1) : seq[j] # x) - 1
    ELSE 0 - 1

findLastIndex(seq, x) ==
    IF \E i \in 1 .. Len(seq) : seq[i] = x
    THEN (CHOOSE i \in 1 .. Len(seq) :
            seq[i] = x /\ \A j \in (i + 1) .. Len(seq) : seq[j] # x) - 1
    ELSE 0 - 1

\* Array.prototype.splice(start, 1): a negative start counts from the end
SpliceStart(seq, start) ==
    IF start < 0 THEN Max(Len(seq) + start, 0)
    ELSE IF start > Len(seq) THEN Len(seq) ELSE start

splice(seq, start) ==
    LET s == SpliceStart(seq, start)
    IN  IF s >= Len(seq) THEN seq
        ELSE [i \in 1 .. (Len(seq) - 1) |->
                IF i <= s THEN seq[i] ELSE seq[i + 1]]

\* the state after the constructor: no key held, channel 0, every key with
\* its base colour only
NewKeyboard ==
    [mouseHeld |-> FALSE,
     heldKeys |-> <<>>,
     channel |-> 0,
     keyColors |-> [k \in Keys |-> <<NoColor>>],
     pressed |-> {},
     background |-> [k \in Keys |-> NoColor],
     sounding |-> {},
     calls |-> <<>>,
     unreleased |-> [k \in Keys |-> 0]]

\* this.synth.noteOn / noteOff: the call is recorded; sounding holds the
\* (channel, key) pairs with a note-on and no later note-off
keyboard_noteOn(kb, channel, midiNote, velocity) ==
    [kb EXCEPT !.sounding = @ \cup {<<channel, midiNote>>},
               !.calls = Append(@, <<"noteOn", channel, midiNote, velocity>>)]

keyboard_noteOff(kb, channel, midiNote) ==
    [kb EXCEPT !.sounding = @ \ {<<channel, midiNote>>},
               !.calls = Append(@, <<"noteOff", channel, midiNote>>)]

\* unreleased counts, per key, the pressNote calls not yet followed by a
\* releaseNote call
pressNote(kb, midiNote, channel, velocity, volume, expression) ==
    [kb EXCEPT !.pressed = @ \cup {midiNote},
               !.unreleased[midiNote] = @ + 1,
               !.background[midiNote] =
                    Shade(channel, velocity, volume, expression),
               !.keyColors[midiNote] = Append(@, channelColors(channel))]

\* a variant that removes nothing when the channel's colour is not found
ReleaseColor_OnlyFound(kb, midiNote, channel) ==
    LET pressedColors == kb.keyColors[midiNote]
        index == findLastIndex(pressedColors, channelColors(channel))
        spliced == IF index < 0 THEN pressedColors
                   ELSE splice(pressedColors, index)
    IN  IF Len(pressedColors) > 1
        THEN [kb EXCEPT !.keyColors[midiNote] = spliced,
                        !.background[midiNote] = spliced[Len(spliced)]]
        ELSE kb

\* the splice of releaseNote and the background that follows it
ReleaseColor(kb, midiNote, channel) ==
    LET pressedColors == kb.keyColors[midiNote]
        spliced == splice(pressedColors,
                          findLastIndex(pressedColors, channelColors(channel)))
    IN  IF Len(pressedColors) > 1
        THEN [kb EXCEPT !.keyColors[midiNote] = spliced,
                        !.background[midiNote] = spliced[Len(spliced)]]
        ELSE kb

\* a variant that brings the note number into the keyboard's range
releaseNote_Clamps(kb, midiNote, channel) ==
    LET note == IF midiNote < 0 THEN 0
                ELSE IF midiNote > NumKeys - 1 THEN NumKeys - 1 ELSE midiNote
        released ==
            ReleaseColor([kb EXCEPT !.unreleased[note] = Max(@ - 1, 0)],
                         note, channel)
    IN  IF Len(released.keyColors[note]) = 1
        THEN [released EXCEPT !.pressed = @ \ {note},
                              !.background[note] = NoColor]
        ELSE released

releaseNote(kb, midiNote, channel) ==
    IF midiNote > 127 \/ midiNote < 0 THEN kb
    ELSE IF midiNote \notin DOMAIN kb.keyColors THEN kb
    ELSE LET released ==
                ReleaseColor([kb EXCEPT !.unreleased[midiNote] = Max(@ - 1, 0)],
                             midiNote, channel)
         IN  IF Len(released.keyColors[midiNote]) = 1
             THEN [released EXCEPT !.pressed = @ \ {midiNote},
                                   !.background[midiNote] = NoColor]
             ELSE released

\* user note on: the body of keyElement.onmousedown
UserNoteOn(kb, midiNote) ==
    keyboard_noteOn(
        pressNote([kb EXCEPT !.heldKeys = Append(@, midiNote)],
                  midiNote, kb.channel, KEYBOARD_VELOCITY, 1, 1),
        kb.channel, midiNote, KEYBOARD_VELOCITY)

onmouseover(kb, midiNote) ==
    IF ~kb.mouseHeld THEN kb ELSE UserNoteOn(kb, midiNote)

\* user note off: keyElement.onmouseout
onmouseout(kb, midiNote) ==
    keyboard_noteOff(
        releaseNote([kb EXCEPT !.heldKeys = splice(@, indexOf(@, midiNote))],
                    midiNote, kb.channel),
        kb.channel, midiNote)

\* document.onmousedown
document_onmousedown(kb) == [kb EXCEPT !.mouseHeld = TRUE]

\* for (let key of this.heldKeys)
RECURSIVE ReleaseHeld(_, _)
ReleaseHeld(kb, i) ==
    IF i > Len(kb.heldKeys) THEN kb
    ELSE ReleaseHeld(
            keyboard_noteOff(releaseNote(kb, kb.heldKeys[i], kb.channel),
                             kb.channel, kb.heldKeys[i]),
            i + 1)

document_onmouseup(kb) == ReleaseHeld([kb EXCEPT !.mouseHeld = FALSE], 1)

selectChannel(kb, channel) == [kb EXCEPT !.channel = channel]

\* the keyboard and the pointer before any input
KeyboardIdle ==
    /\ keyboard = [NewKeyboard EXCEPT !.calls = <<>>]
    /\ pointer = Undefined
    /\ lastKey = [op |-> "new", key |-> Undefined, channel |-> 0,
                  before |-> NewKeyboard]

----------------------------------------------------------------------------
(* Manager: the audio export dialog and the export it starts, with the     *)
(* notifications both of them show                                         *)

MaxNotifications == 4

\* the manager before any export: notifications holds the ids registered by
\* showNotification, dialogs the export dialogs whose element is still in
\* the document, exports the progress notifications of the exports that
\* have started and not ended
NewManager ==
    [isExporting |-> FALSE,
     notificationCounter |-> 0,
     notifications |-> {},
     dialogs |-> {},
     exports |-> {}]

\* showNotification: the new notification gets the id notificationCounter++
showNotification(m) ==
    [m EXCEPT !.notifications = @ \cup {m.notificationCounter},
              !.notificationCounter = @ + 1]

\* closeNotification(id) of a registered notification; the element leaves
\* the document half a second later
closeNotification(m, id) == [m EXCEPT !.notifications = @ \ {id}]

\* _doExportAudioData up to its first await
_doExportAudioData(m) ==
    [showNotification([m EXCEPT !.isExporting = TRUE])
        EXCEPT !.exports = @ \cup {m.notificationCounter}]

\* the end of _doExportAudioData, after the rendering
ExportEnd(m, id) ==
    [closeNotification(m, id) EXCEPT !.isExporting = FALSE,
                                     !.exports = @ \ {id}]

\* the synthesizer could not be created: a warning is shown and the error
\* is thrown again
ExportThrow(m, id) == [showNotification(m) EXCEPT !.exports = @ \ {id}]

\* _exportAudioData: the dialog
_exportAudioData(m) ==
    IF m.isExporting THEN m
    ELSE [showNotification(m) EXCEPT !.dialogs = @ \cup {m.notificationCounter}]

\* the onClick of the confirm button; closeNotification throws for a
\* notification that is closed already
ConfirmClick(m, id) ==
    IF id \notin m.notifications THEN m
    ELSE _doExportAudioData(closeNotification(m, id))

\* the element of a closed dialog is removed from the document
RemoveElement(m, id) == [m EXCEPT !.dialogs = @ \ {id}]

ManagerIdle ==
    /\ manager = NewManager
    /\ lastExport = [op |-> "new", id |-> Undefined, before |-> NewManager]

----------------------------------------------------------------------------
(* The state machine *)

MaxBlocks == 2
BlockSeconds == <<1, 2>>
Rates == {<<1, 2>>, <<1, 1>>, <<2, 1>>}

NoSaved == [len |-> 0, rows |-> <<>>]

Commit(this) ==
    /\ oneTickToSeconds' = this.oneTickToSeconds
    /\ playedTime' = this.playedTime
    /\ eventIndex' = this.eventIndex
    /\ absoluteStartTime' = this.absoluteStartTime
    /\ pausedTime' = this.pausedTime
    /\ playingNotes' = this.playingNotes
    /\ midiPorts' = this.midiPorts
    /\ midiPortChannelOffsets' = this.midiPortChannelOffsets
    /\ processHandler' = this.processHandler
    /\ synth' = this.synth
    /\ trace' = this.trace

Called(op, arg, ret, pitchBends, saved) ==
    [op |-> op, arg |-> arg, ret |-> ret, pitchBends |-> pitchBends,
     savedControllers |-> saved, notesBefore |-> Len(playingNotes),
     pausedBefore |-> pausedTime, portsBefore |-> midiPorts,
     offsetsBefore |-> midiPortChannelOffsets, consumed |-> <<>>,
     atEnd |-> RGeq(seqCurrentTime(This), Duration)]

\* a sequencer with a file loaded at the audio clock's start, not yet playing
LoadedIn(files, rates, modes) ==
    /\ tracks \in files
    /\ sendMIDIMessages \in modes
    /\ playbackRate \in rates
    /\ currentTime = RZero
    /\ oneTickToSeconds = Rat(60, 120 * TimeDivision)
    /\ playedTime = RZero
    /\ eventIndex = [t \in TrackIndexes |-> 0]
    /\ absoluteStartTime = RZero
    /\ pausedTime = RUndefined
    /\ playingNotes = <<>>
    /\ midiPorts = [t \in TrackIndexes |-> 0]
    /\ midiPortChannelOffsets = (0 :> 0)
    /\ processHandler = FALSE
    /\ synth = SynthPowerOn(InitialChannelCount)
    /\ trace = <<>>
    /\ lastCall = [op |-> "load", arg |-> Undefined, ret |-> TRUE,
                   pitchBends |-> <<>>, savedControllers |-> NoSaved,
                   notesBefore |-> 0, pausedBefore |-> RUndefined,
                   portsBefore |-> [t \in TrackIndexes |-> 0],
                   offsetsBefore |-> (0 :> 0), consumed |-> <<>>,
                   atEnd |-> FALSE]

\* no note is sounding
Loaded(files, rates) ==
    /\ LoadedIn(files, rates, BOOLEAN)
    /\ voice = IdleVoice
    /\ lastEnv = NoEnvCall
    /\ KeyboardIdle
    /\ ManagerIdle

\* every file, at the default playback rate
Init == Loaded(Files, {RInt(1)})

\* the one-message files, at every playback rate
InitClock == Loaded(ShortFiles, Rates)

SetTimeTicksDone(ticks, r) ==
    /\ Commit(r.this)
    /\ lastCall' = [Called("setTimeTicks", ticks, r.ret, r.pitchBends,
                           r.savedControllers)
                        EXCEPT !.consumed = r.consumed]
    /\ UNCHANGED <<tracks, sendMIDIMessages, playbackRate, currentTime,
                   voice, lastEnv, kbdVars, exportVars>>

SetTimeTicks(ticks) == SetTimeTicksDone(ticks, setTimeTicks(This, ticks))

Play(resetTime) ==
    /\ Commit(play(This, resetTime))
    /\ lastCall' = Called("play", IF resetTime THEN 1 ELSE 0, TRUE, <<>>, NoSaved)
    /\ UNCHANGED <<tracks, sendMIDIMessages, playbackRate, currentTime,
                   voice, lastEnv, kbdVars, exportVars>>

Pause ==
    /\ pausedTime = RUndefined
    /\ Commit(pause(This))
    /\ lastCall' = Called("pause", Undefined, TRUE, <<>>, NoSaved)
    /\ UNCHANGED <<tracks, sendMIDIMessages, playbackRate, currentTime,
                   voice, lastEnv, kbdVars, exportVars>>

\* one audio block: the clock advances and the tick handler, when
\* installed, runs
AudioBlock ==
    /\ RLess(currentTime, RMul(RInt(MaxBlocks), BlockSeconds))
    /\ currentTime' = RAdd(currentTime, BlockSeconds)
    /\ LET t0 == [This EXCEPT !.now = currentTime']
       IN  Commit(IF processHandler THEN _processTick(t0) ELSE t0)
    /\ lastCall' = Called("block", Undefined, TRUE, <<>>, NoSaved)
    /\ UNCHANGED <<tracks, sendMIDIMessages, playbackRate, voice, lastEnv, kbdVars, exportVars>>

Next ==
    \/ \E ticks \in 0 .. (LastTick + 1) : SetTimeTicks(ticks)
    \/ \E resetTime \in BOOLEAN : Play(resetTime)
    \/ Pause
    \/ AudioBlock

Spec == Init /\ [][Next]_vars

SpecClock == InitClock /\ [][Next]_vars

----------------------------------------------------------------------------
(* The state machine of a voice's envelope *)

seqVars == <<tracks, sendMIDIMessages, playbackRate, currentTime,
             oneTickToSeconds, playedTime, eventIndex, absoluteStartTime,
             pausedTime, playingNotes, midiPorts, midiPortChannelOffsets,
             processHandler, synth, trace, lastCall>>

EnvCalled(op, length, centibelOffset, smoothingFactor, buffer, changes) ==
    [op |-> op, before |-> voice, length |-> length,
     centibelOffset |-> centibelOffset, smoothingFactor |-> smoothingFactor,
     buffer |-> buffer, changes |-> changes]

\* a note has just been started; the sequencer holds one file and is idle
InitEnv ==
    /\ LoadedIn({FileOf(<<<<[messageStatusByte |-> 144,
                             messageData |-> <<60, 100>>], 0>>>>)},
                {RInt(1)}, {FALSE})
    /\ voice \in {NewVoice(note) : note \in Notes}
    /\ lastEnv = [NoEnvCall EXCEPT !.before = voice]
    /\ KeyboardIdle
    /\ ManagerIdle

\* samples rendered since the note began or, in release, since its release
EnvElapsed(v) ==
    v.volumeEnvelope.currentSampleTime
        - (IF v.isInRelease THEN v.volumeEnvelope.releaseStartTimeSamples
           ELSE 0)

EnvApplied(length, centibelOffset, smoothingFactor, r) ==
    /\ voice' = r.voice
    /\ lastEnv' = EnvCalled("apply", length, centibelOffset, smoothingFactor,
                            r.buffer, lastEnv.changes)
    /\ UNCHANGED <<seqVars, kbdVars, exportVars>>

\* the synth renders one block of the voice
EnvApply(length, centibelOffset, smoothingFactor) ==
    /\ ~voice.finished
    /\ EnvElapsed(voice) < (IF voice.isInRelease THEN MaxReleaseTime
                            ELSE MaxSampleTime)
    /\ EnvApplied(length, centibelOffset, smoothingFactor,
                  apply(voice, length, centibelOffset, smoothingFactor))

\* the channel releases the voice: isInRelease is set, then startRelease
EnvRelease ==
    /\ ~voice.finished /\ ~voice.isInRelease
    /\ voice' = startRelease([voice EXCEPT !.isInRelease = TRUE])
    /\ lastEnv' = EnvCalled("startRelease", 0, 0, RZero, <<>>, lastEnv.changes)
    /\ UNCHANGED <<seqVars, kbdVars, exportVars>>

\* a controller change moves the modulated generators: recalculate
EnvModulate(g) ==
    /\ ~voice.finished
    /\ lastEnv.changes < MaxChanges
    /\ g # voice.modulatedGenerators
    /\ voice' = recalculate([voice EXCEPT !.modulatedGenerators = g])
    /\ lastEnv' = EnvCalled("recalculate", 0, 0, RZero, <<>>,
                            lastEnv.changes + 1)
    /\ UNCHANGED <<seqVars, kbdVars, exportVars>>

NextEnv ==
    \/ \E length \in 1 .. MaxBufferLength :
         \E centibelOffset \in CentibelOffsets :
            \E smoothingFactor \in SmoothingFactors :
                EnvApply(length, centibelOffset, smoothingFactor)
    \/ EnvRelease
    \/ \E note \in Notes : EnvModulate(note.modulatedGenerators)

SpecEnv == InitEnv /\ [][NextEnv]_vars

----------------------------------------------------------------------------
(* What the claims are stated with *)

SeekDone == lastCall.op = "setTimeTicks"
SeekPlayed == SeekDone /\ lastCall.ret
Target == lastCall.arg

\* play() found the played time at the end of the file and sought to 0
Nested == \E i \in 1 .. Len(trace) : trace[i].depth > 0

TraceIndexes(P(_)) == {i \in 1 .. Len(trace) : trace[i].depth = 0 /\ P(trace[i])}
Outer(P(_)) == SelectSeq(trace, LAMBDA e : e.depth = 0 /\ P(e))
AllBefore(I, J) == \A i \in I : \A j \in J : i < j

\* the file's events in the order of their ticks, a track of lower index
\* first on a tie: positions <<track, index>>
Positions == UNION {{<<t, i>> : i \in 1 .. Len(tracks[t])} : t \in TrackIndexes}
EventOf(p) == tracks[p[1]][p[2]]
Precedes(p, q) ==
    \/ EventOf(p).ticks < EventOf(q).ticks
    \/ EventOf(p).ticks = EventOf(q).ticks /\ p[1] < q[1]
    \/ EventOf(p).ticks = EventOf(q).ticks /\ p[1] = q[1] /\ p[2] <= q[2]

RECURSIVE Ordered(_)
Ordered(S) ==
    IF S = {} THEN <<>>
    ELSE LET first == CHOOSE p \in S : \A q \in S : Precedes(p, q)
         IN  <<first>> \o Ordered(S \ {first})

\* the positions a seek to `ticks` replays
ReplayedBefore(ticks) == Ordered({p \in Positions : EventOf(p).ticks < ticks})

StatusOf(p) == getEvent(EventOf(p).messageStatusByte).status
ChannelOf(p) == getEvent(EventOf(p).messageStatusByte).channel
IsController(p) == StatusOf(p) = messageTypes.controllerChange

\* normal playback with the notes muted, in direct mode: every event of
\* `order` from index i on that is no note goes through _processEvent
RECURSIVE MutedPlay(_, _, _)
MutedPlay(this, order, i) ==
    IF i > Len(order) THEN this
    ELSE MutedPlay(
            IF IsNoteMessage(StatusOf(order[i])) THEN this
            ELSE _processEvent(this, EventOf(order[i]), order[i][1], "reference"),
            order, i + 1)

\* a sequencer at power-on defaults whose tracks sit on the ports they sat
\* on when the last handler was called
ReferenceStart ==
    [This EXCEPT !.midiPorts = lastCall.portsBefore,
                 !.midiPortChannelOffsets = lastCall.offsetsBefore,
                 !.playingNotes = <<>>,
                 !.synth = SynthPowerOn(16 * Cardinality(DOMAIN lastCall.offsetsBefore))]

\* the file played from tick 0 to the seek's target with the notes muted
Reference == MutedPlay(ReferenceStart, ReplayedBefore(Target), 1)

\* the controller changes of the reference, <<channel, controller, value>>
ReferenceControllers(P(_)) ==
    LET cc == SelectSeq(Reference.trace,
                        LAMBDA e : e.call = "controllerChange" /\ P(e.args[2]))
    IN  [i \in 1 .. Len(cc) |-> cc[i].args]

\* the documented default of controller k
DocumentedDefault(k) ==
    CASE k = 7 -> 100 [] k = 11 -> 127 [] k = 10 -> 64 [] k = 72 -> 64
      [] k = 74 -> 64 [] k = 91 -> 40 [] OTHER -> 0

\* the data entry family, the RPN / NRPN selects and the bank selects
ImmediateFamily == {6, 38, 96, 97, 98, 99, 100, 101, 0, 32}

FileHasPort ==
    \E p \in Positions : StatusOf(p) = messageTypes.midiPort

----------------------------------------------------------------------------
(* C1 *)

\* C1: after setTimeTicks(T) has returned to playing in direct mode, every
\* channel of the synth holds the program, controllers (bank, RPN and NRPN
\* selects among them) and pitch wheel it holds after the file is played
\* from tick 0 to T with the notes muted. Stated for the files without a
\* MIDI port message, where the channel of every message is its own.
C1_SeekEqualsMutedPlay ==
    (SeekPlayed /\ ~sendMIDIMessages /\ ~Nested /\ ~FileHasPort)
        => SynthChannelState(synth) = SynthChannelState(Reference.synth)

----------------------------------------------------------------------------
(* C2 *)

IsNoteOnCall(e) ==
    \/ e.to = "synth" /\ e.call = "noteOn"
    \/ e.to = "sink" /\ e.args[1] >= messageTypes.noteOn
                     /\ e.args[1] < messageTypes.noteOn + 16

\* C2: a seek sends no note-on, neither to the synth nor to the sink, at any
\* depth of the call; it leaves playingNotes empty and the synth without a
\* voice.
C2_SeekStartsNoVoice ==
    SeekDone =>
        /\ \A i \in 1 .. Len(trace) : ~IsNoteOnCall(trace[i])
        /\ playingNotes = <<>>
        /\ synth.voices = {}

\* a seek that resumed playing, called while a note was playing, whose
\* replay passed a note-on of the file
C2_Witness ==
    /\ SeekPlayed
    /\ lastCall.notesBefore > 0
    /\ processHandler
    /\ \E i \in 1 .. Len(ReplayedBefore(Target)) :
            StatusOf(ReplayedBefore(Target)[i]) = messageTypes.noteOn

----------------------------------------------------------------------------
(* C3 *)

IsBatchControllerChange(e) ==
    e.site = "_playTo.batch" /\ e.to = "synth" /\ e.call = "controllerChange"

\* the controllers a seek is documented to defer: all but the data entry
\* family, the RPN / NRPN selects, the bank selects and reset-all
IsDeferred(k) ==
    k \notin ImmediateFamily /\ k # midiControllers.resetAllControllers

IsDeferredBatch(e) == IsBatchControllerChange(e) /\ IsDeferred(e.args[2])

\* the last value written to (c, k) in `written`, Undefined when there is none
LastWritten(written, c, k) ==
    LET w == SelectSeq(written, LAMBDA a : a[1] = c /\ a[2] = k)
    IN  IF w = <<>> THEN Undefined ELSE w[Len(w)][3]

\* the (channel, controller) pairs that are written or get a message; any
\* other pair has neither a write nor a message
Pairs(written, batch) ==
    {<<written[i][1], written[i][2]>> : i \in 1 .. Len(written)}
        \cup {<<batch[i].args[1], batch[i].args[2]>> : i \in 1 .. Len(batch)}

SentOnceIffNotDefault(v, k, sent) ==
    IF v # Undefined /\ v # DocumentedDefault(k)
    THEN Len(sent) = 1 /\ sent[1].args[3] = v
    ELSE sent = <<>>

BatchSendsLastNonDefault(written, batch, ks) ==
    \A pair \in Pairs(written, batch) :
        pair[2] \in ks =>
            SentOnceIffNotDefault(
                LastWritten(written, pair[1], pair[2]), pair[2],
                SelectSeq(batch, LAMBDA e : e.args[1] = pair[1]
                                            /\ e.args[2] = pair[2]))

\* C3: in direct mode, after a seek to tick T that resumed playing, the
\* batch holds exactly one controllerChange(c, k, v) for a deferred
\* controller k of channel c whose last value v written before T differs from
\* the documented default of k, and none for any other (c, k).
C3_BatchSendsLastNonDefault ==
    (SeekPlayed /\ ~sendMIDIMessages /\ ~Nested) =>
        BatchSendsLastNonDefault(ReferenceControllers(IsDeferred),
                                 Outer(IsDeferredBatch), 0 .. 127)

\* the same for the controllers the default table has an index for
C3_BelowTableEnd ==
    (SeekPlayed /\ ~sendMIDIMessages /\ ~Nested) =>
        BatchSendsLastNonDefault(ReferenceControllers(IsDeferred),
                                 Outer(IsDeferredBatch),
                                 0 .. (defaultControllerArrayLength - 1))

----------------------------------------------------------------------------
(* C4 *)

IsFamilyEvent(p) ==
    IsController(p) /\ EventOf(p).messageData[1] \in ImmediateFamily

\* <<controller, value>> of the family's events before the target, in file
\* order
FamilyOf(order, family) ==
    LET fam == SelectSeq(order, LAMBDA p : IsController(p)
                                /\ EventOf(p).messageData[1] \in family)
    IN  [i \in 1 .. Len(fam) |-> EventOf(fam[i]).messageData]

IsForwardedControllerChange(e) ==
    /\ e.site = "_playTo.replay"
    /\ \/ e.to = "synth" /\ e.call = "controllerChange"
       \/ e.to = "sink" /\ e.args[1] \div 16 = messageTypes.controllerChange \div 16

\* <<controller, value>> of the family's messages the replay forwarded
ForwardedOf(family) ==
    LET f == Outer(LAMBDA e : IsForwardedControllerChange(e)
                              /\ e.args[2] \in family)
    IN  [i \in 1 .. Len(f) |-> <<f[i].args[2], f[i].args[3]>>]

SavedOf(family) ==
    \E c \in DOMAIN lastCall.savedControllers.rows :
        \E k \in DOMAIN lastCall.savedControllers.rows[c] : k \in family

\* C4: the replay of a seek forwards every data entry, data increment, data
\* decrement, RPN / NRPN select and bank select of the file before the
\* target, in file order, and saves none of them in the deferred table.
C4_FamilyForwardedInOrder ==
    (SeekDone /\ ~Nested) =>
        /\ ForwardedOf(ImmediateFamily)
                = FamilyOf(ReplayedBefore(Target), ImmediateFamily)
        /\ ~SavedOf(ImmediateFamily)

\* the same without data increment
C4_WithoutDataIncrement ==
    (SeekDone /\ ~Nested) =>
        /\ ForwardedOf(ImmediateFamily \ {midiControllers.dataIncrement})
                = FamilyOf(ReplayedBefore(Target),
                           ImmediateFamily \ {midiControllers.dataIncrement})
        /\ ~SavedOf(ImmediateFamily \ {midiControllers.dataIncrement})

----------------------------------------------------------------------------
(* C5 *)

IsStop(e) == e.call = "stop" /\ e.site = "setTimeTicks"
IsReset(e) == e.site = "_playTo.reset"
IsRewind(e) == e.call = "_resetTimers"
IsReplayed(e) == e.site = "_playTo.replay"
IsBatch(e) == e.site = "_playTo.batch"
IsPlay(e) == e.to = "seq" /\ e.call = "play"
IsTimeChange(e) == e.to = "main" /\ e.call = "timeChange"

StepsInOrder(stops, resets, rewinds, replayed, batch, plays, changes) ==
    /\ stops = {1}
    /\ resets # {} /\ rewinds # {}
    /\ AllBefore(stops, replayed)
    /\ AllBefore(resets \cup rewinds, replayed \cup batch)
    /\ AllBefore(replayed, batch)
    /\ AllBefore(batch, plays)
    /\ AllBefore(plays, changes)
    /\ Cardinality(plays) = (IF lastCall.ret THEN 1 ELSE 0)
    /\ Cardinality(changes) = (IF lastCall.ret THEN 1 ELSE 0)

\* C5: a seek calls stop() first; resets the controllers and rewinds the
\* timers before the first replayed message; issues the whole batch after
\* the last replayed message and before play(); and posts timeChange after
\* play(). A seek that runs past the end of the file neither plays nor posts.
C5_SeekStepsInOrder ==
    SeekDone =>
        StepsInOrder(TraceIndexes(IsStop), TraceIndexes(IsReset),
                     TraceIndexes(IsRewind), TraceIndexes(IsReplayed),
                     TraceIndexes(IsBatch), TraceIndexes(IsPlay),
                     TraceIndexes(IsTimeChange))

\* a seek that replayed a message, sent a saved controller and played
C5_Witness ==
    /\ SeekPlayed /\ ~Nested
    /\ TraceIndexes(IsReplayed) # {}
    /\ TraceIndexes(IsBatchControllerChange) # {}
    /\ TraceIndexes(IsTimeChange) # {}

----------------------------------------------------------------------------
(* C6 *)

IsPlayToSynthCall(e, calls) ==
    /\ e.to = "synth"
    /\ e.site \in {"_playTo.reset", "_playTo.replay", "_playTo.batch"}
    /\ e.call \in calls

\* C6: in passthrough mode _playTo calls neither resetAllControllers nor
\* controllerChange nor pitchWheel on the synth.
C6_PassthroughBypassesSynth ==
    (SeekDone /\ sendMIDIMessages) =>
        \A i \in 1 .. Len(trace) :
            ~IsPlayToSynthCall(trace[i], {"resetAllControllers",
                                          "controllerChange", "pitchWheel"})

\* the same for controllerChange and pitchWheel alone
C6_ControllersBypassSynth ==
    (SeekDone /\ sendMIDIMessages) =>
        \A i \in 1 .. Len(trace) :
            ~IsPlayToSynthCall(trace[i], {"controllerChange", "pitchWheel"})

----------------------------------------------------------------------------
(* C7 *)

\* C7: the default table a seek compares the saved controllers with has, for
\* every controller number 0..127, the documented default.
C7_DefaultTableComplete ==
    SeekDone => \A k \in 0 .. 127 : DefaultAt(k) = DocumentedDefault(k)

----------------------------------------------------------------------------
(* C8 *)

IsBend(p) == StatusOf(p) = messageTypes.pitchBend

\* the data bytes <<lsb, msb>> of the last pitch bend of channel c in
\* `order`, <<>> when there is none
LastBend(order, c) ==
    LET b == SelectSeq(order, LAMBDA p : IsBend(p) /\ ChannelOf(p) = c)
    IN  IF b = <<>> THEN <<>> ELSE EventOf(b[Len(b)]).messageData

IsBatchPitch(e, c) ==
    /\ e.site = "_playTo.batch"
    /\ \/ e.to = "synth" /\ e.call = "pitchWheel" /\ e.args[1] = c
       \/ e.to = "sink" /\ e.args[1] = messageTypes.pitchBend + c

\* the value tracked for c and the one message issued for c carry lsb, msb
RoundTrips(c, lsb, msb, tracked, sent) ==
    /\ tracked = msb * 128 + lsb
    /\ Len(sent) = 1
    /\ sent[1].args = IF sendMIDIMessages
                      THEN <<messageTypes.pitchBend + c, lsb, msb>>
                      ELSE <<c, msb, lsb>>

BendRoundTrips(c, d) ==
    RoundTrips(c, IF d = <<>> THEN PitchWheelCentre % 128 ELSE d[1],
                  IF d = <<>> THEN PitchWheelCentre \div 128 ELSE d[2],
               lastCall.pitchBends[c],
               Outer(LAMBDA e : IsBatchPitch(e, c)))

AllBendsRoundTrip(order) ==
    \A c \in 0 .. 15 : BendRoundTrips(c, LastBend(order, c))

\* C8: after a seek that resumed playing, for every channel 0..15 the value
\* tracked is (msb << 7) | lsb of the channel's last pitch bend before the
\* target, 8192 when it has none, and exactly one message is issued for the
\* channel: pitchWheel(channel, msb, lsb) in direct mode, the bytes
\* [status, lsb, msb] in passthrough mode.
C8_PitchWheelRoundTrip ==
    (SeekPlayed /\ ~Nested) => AllBendsRoundTrip(ReplayedBefore(Target))

\* a seek that replayed a pitch bend whose bytes differ
C8_Witness ==
    /\ SeekPlayed /\ ~Nested
    /\ \E c \in 0 .. 15 :
            /\ LastBend(ReplayedBefore(Target), c) # <<>>
            /\ LastBend(ReplayedBefore(Target), c)[1]
                    # LastBend(ReplayedBefore(Target), c)[2]
            /\ lastCall.pitchBends[c] # PitchWheelCentre

----------------------------------------------------------------------------
(* C9 *)

IsReplayedSynthController(e) ==
    e.site = "_playTo.replay" /\ e.to = "synth" /\ e.call = "controllerChange"

ArgsOf(s) == [i \in 1 .. Len(s) |-> s[i].args]

\* the channel of every forwarded controller change is playback's
ForwardedOnPortChannel(ref) ==
    ArgsOf(Outer(IsReplayedSynthController))
        = ArgsOf(SelectSeq(ref, LAMBDA e : e.call = "controllerChange"
                                    /\ IsForwardedController(e.args[2])))

\* every saved controller the batch sends was written by playback
DeferredOnPortChannel(ref, batch) ==
    \A i \in 1 .. Len(batch) :
        \E j \in 1 .. Len(ref) :
            ref[j].call = "controllerChange" /\ ref[j].args = batch[i].args

\* the last pitch bend playback applies to a channel is the one the batch
\* sends to it
BendOnPortChannel(ref, batch) ==
    \A j \in 1 .. Len(ref) :
        (/\ ref[j].call = "pitchWheel"
         /\ \A l \in (j + 1) .. Len(ref) :
                ~(ref[l].call = "pitchWheel" /\ ref[l].args[1] = ref[j].args[1]))
            => \E i \in 1 .. Len(batch) : batch[i].args = ref[j].args

PortReplayed(order) ==
    \E i \in 1 .. Len(order) : StatusOf(order[i]) = messageTypes.midiPort

SavedCoversSynth ==
    \A c \in 0 .. (synth.channels - 1) :
        c \in DOMAIN lastCall.savedControllers.rows

\* C9: in direct mode, the forwarded controller changes, the saved
\* controllers and the pitch bends of a seek go to the synth channel
\* (event channel + port offset) normal playback uses; and after a MIDI port
\* event was replayed the saved table has a row for every synth channel.
C9_ReplayUsesPortChannels ==
    (SeekPlayed /\ ~sendMIDIMessages /\ ~Nested) =>
        /\ ForwardedOnPortChannel(Reference.trace)
        /\ DeferredOnPortChannel(Reference.trace, Outer(IsBatchControllerChange))
        /\ BendOnPortChannel(Reference.trace,
                             Outer(LAMBDA e : e.site = "_playTo.batch"
                                              /\ e.call = "pitchWheel"))
        /\ PortReplayed(ReplayedBefore(Target)) => SavedCoversSynth

\* the saved controllers alone, and the rows of the table
C9_DeferredUsesPortChannels ==
    (SeekPlayed /\ ~sendMIDIMessages /\ ~Nested) =>
        /\ DeferredOnPortChannel(Reference.trace, Outer(IsBatchControllerChange))
        /\ PortReplayed(ReplayedBefore(Target)) => SavedCoversSynth

----------------------------------------------------------------------------
(* C10 *)

\* the played time the audio clock, the start time and the rate stand for
ClockTime == RMul(RSub(currentTime, absoluteStartTime), playbackRate)

Resumed ==
    /\ lastCall.op = "play" /\ lastCall.arg = 0
    /\ lastCall.pausedBefore # RUndefined
    /\ ~Nested

\* C10: play() on a paused sequencer sets absoluteStartTime to
\* now - pausedTime / playbackRate and clears pausedTime, so that
\* (now - absoluteStartTime) * playbackRate is the time captured at pause;
\* and after the _recalculateStartTime(playedTime) of a seek it is playedTime.
C10_ResumeKeepsPlayedTime ==
    /\ Resumed =>
        /\ pausedTime = RUndefined
        /\ absoluteStartTime
                = RSub(currentTime, RDiv(lastCall.pausedBefore, playbackRate))
        /\ ClockTime = lastCall.pausedBefore
    /\ (SeekDone /\ ~Nested) => ClockTime = playedTime

\* a resume at a rate other than 1, after the clock and the played time
\* have advanced
C10_Witness ==
    /\ Resumed
    /\ playbackRate # RInt(1)
    /\ lastCall.pausedBefore # RZero
    /\ currentTime # RZero
    /\ processHandler

----------------------------------------------------------------------------
(* Claims about the volume envelope *)

EnvBefore == lastEnv.before.volumeEnvelope
EnvNow == voice.volumeEnvelope
Applied == lastEnv.op = "apply"
AppliedInRelease == Applied /\ lastEnv.before.isInRelease
AppliedOutsideRelease == Applied /\ ~lastEnv.before.isInRelease

\* C11: env.state is always one of 0..4; no call of apply, recalculate or
\* startRelease lowers it; sustain (4) is never left; apply on a voice in
\* release leaves it as it was.
C11_StateOnlyAdvances ==
    /\ EnvNow.state \in 0 .. 4
    /\ lastEnv.op \in {"apply", "recalculate", "startRelease"}
            => EnvBefore.state <= EnvNow.state
    /\ EnvBefore.state = 4 => EnvNow.state = 4
    /\ AppliedInRelease => EnvNow.state = EnvBefore.state

\* one block took the envelope from delay through to sustain
C11_Witness ==
    AppliedOutsideRelease /\ EnvBefore.state = 0 /\ EnvNow.state = 4

Recalculated == lastEnv.op \in {"recalculate", "startRelease"}

\* attackProgress = 1 - (attackEnd - releaseStartTimeSamples) / attackDuration
AttackProgressAtRelease(env) ==
    FSub(FInt(1),
         FDiv(FSub(env.attackEnd, FInt(env.releaseStartTimeSamples)),
              env.attackDuration))

\* the point of the line from the attenuation at holdEnd to sustainDb at
\* decayEnd that lies at releaseStartTimeSamples
DecayInterpolationAtRelease(env) ==
    FAdd(env.attenuation,
         FMul(FDiv(FSub(FInt(env.releaseStartTimeSamples), env.holdEnd),
                   FSub(env.decayEnd, env.holdEnd)),
              FSub(env.sustainDb, env.attenuation)))

ExpectedReleaseStartDb(env) ==
    CASE env.state = 0 -> FInt(100)
      [] env.state = 1 ->
            FMul(FInt(0 - 20),
                 GLog10(GScale(AttackProgressAtRelease(env),
                               decibelAttenuationToGain(env.attenuation))))
      [] env.state = 2 -> env.attenuation
      [] env.state = 3 -> DecayInterpolationAtRelease(env)
      [] env.state = 4 -> env.sustainDb

\* C12: recalculate (alone or at the end of startRelease) on a voice in
\* release sets releaseStartDb from the stage the envelope is in: 100 dB in
\* delay, -20 * log10(attackProgress * peakGain) in attack, the attenuation
\* in hold, the interpolation between attenuation and sustainDb in decay,
\* sustainDb in sustain; on a voice not in release it leaves releaseStartDb
\* as it was.
C12_ReleaseStartFromStage ==
    Recalculated =>
        IF voice.isInRelease
        THEN EnvNow.releaseStartDb = ExpectedReleaseStartDb(EnvNow)
        ELSE EnvNow.releaseStartDb = EnvBefore.releaseStartDb

\* a release that began half way through the attack
C12_Witness ==
    /\ lastEnv.op = "startRelease"
    /\ EnvNow.state = 1
    /\ AttackProgressAtRelease(EnvNow) = <<1, 2>>
    /\ FIsFinite(EnvNow.releaseStartDb)

\* releaseStartDb + (e / releaseDuration) * (100 - releaseStartDb)
ReleaseRamp(env, e) ==
    FAdd(env.releaseStartDb,
         FMul(FDiv(FInt(e), env.releaseDuration),
              FSub(FInt(100), env.releaseStartDb)))

\* the operations of the last apply, one per buffer index when each index
\* was touched once
BlockOps == {lastEnv.buffer[i][1] :
                i \in {j \in 1 .. Len(lastEnv.buffer) : lastEnv.buffer[j] # <<>>}}

\* the ramp is at 96 dB or more on some sample of the last block
RampReachedSilence ==
    \E op \in BlockOps :
        FGeq(ReleaseRamp(EnvBefore, op.time - EnvBefore.releaseStartTimeSamples),
             FInt(96))

\* C13: in release the target attenuation e samples after the release
\* began is releaseStartDb + (e / releaseDuration) * (100 - releaseStartDb);
\* apply sets voice.finished on the block in which that value is 96 dB or
\* more and not on an earlier block, and never on a voice that is not in
\* release.
C13_FinishedWhenRampAtSilence ==
    /\ AppliedInRelease =>
        /\ \A op \in BlockOps :
                op.attenuationDb =
                    ReleaseRamp(EnvBefore,
                                op.time - EnvBefore.releaseStartTimeSamples)
        /\ voice.finished <=> (lastEnv.before.finished \/ RampReachedSilence)
    /\ AppliedOutsideRelease => voice.finished = lastEnv.before.finished

\* centibelOffset / 10 of the last apply
BlockDecibelOffset == Rat(lastEnv.centibelOffset, 10)

\* the point at time t of the line from the attenuation at holdEnd to
\* sustainDb at decayEnd
DecayLine(env, t) ==
    FAdd(env.attenuation,
         FMul(FDiv(FSub(FInt(t), env.holdEnd), FSub(env.decayEnd, env.holdEnd)),
              FSub(env.sustainDb, env.attenuation)))

StageOps(stage) == {op \in BlockOps : op.state = stage}

\* the last block entered the decay stage and left it for sustain
DecayWithinBlock ==
    /\ AppliedOutsideRelease
    /\ EnvBefore.state <= 2
    /\ EnvNow.state = 4
    /\ FIsFinite(EnvNow.decayDuration)
    /\ FLess(FInt(0), EnvNow.decayDuration)

\* C14: outside release the hold stage aims at the peak attenuation until
\* holdEnd, the decay stage aims at the line in dB from the peak attenuation
\* at holdEnd to sustainDb at decayEnd and lasts decayDuration output
\* samples, and the sustain stage aims at sustainDb.
C14_HoldDecaySustainTargets ==
    AppliedOutsideRelease =>
        /\ \A op \in StageOps(2) :
                /\ op.attenuationDb = FAdd(EnvNow.attenuation, BlockDecibelOffset)
                /\ FLess(FInt(op.time), EnvNow.holdEnd)
        /\ \A op \in StageOps(3) :
                op.attenuationDb =
                    FAdd(DecayLine(EnvNow, op.time), BlockDecibelOffset)
        /\ \A op \in StageOps(4) :
                op.attenuationDb = FAdd(EnvNow.sustainDb, BlockDecibelOffset)
        /\ DecayWithinBlock =>
                /\ FGeq(FInt(Cardinality(StageOps(3))), EnvNow.decayDuration)
                /\ FLess(FInt(Cardinality(StageOps(3))),
                         FAdd(EnvNow.decayDuration, FInt(1)))

\* the hold and sustain parts alone
C14_HoldAndSustainTargets ==
    AppliedOutsideRelease =>
        /\ \A op \in StageOps(2) :
                /\ op.attenuationDb = FAdd(EnvNow.attenuation, BlockDecibelOffset)
                /\ FLess(FInt(op.time), EnvNow.holdEnd)
        /\ \A op \in StageOps(4) :
                op.attenuationDb = FAdd(EnvNow.sustainDb, BlockDecibelOffset)

\* attackProgress = 1 - (attackEnd - currentSampleTime) / attackDuration
AttackProgress(env, t) ==
    FSub(FInt(1), FDiv(FSub(env.attackEnd, FInt(t)), env.attackDuration))

\* the gain of the peak attenuation, the block's offset included
PeakGain == decibelAttenuationToGain(FAdd(EnvNow.attenuation, BlockDecibelOffset))

C16_ClockCountsSamples ==
    Applied =>
        EnvNow.currentSampleTime = EnvBefore.currentSampleTime + lastEnv.length

\* the same for the blocks that do not come to the test of the decay loop
C16_ClockOutsideDecay ==
    (Applied /\ (lastEnv.before.isInRelease \/ EnvBefore.state = 4
                    \/ EnvNow.state <= 2))
        => EnvNow.currentSampleTime
                = EnvBefore.currentSampleTime + lastEnv.length

\* a <= b for numbers that may be NaN or infinite
FLeq(a, b) == FGeq(b, a)

\* C17: after recalculate delayEnd <= attackEnd <= holdEnd <= decayEnd, and
\* decayDuration is finite and not negative, whatever the generators are.
C17_EndTimesOrdered ==
    /\ FLeq(EnvNow.delayEnd, EnvNow.attackEnd)
    /\ FLeq(EnvNow.attackEnd, EnvNow.holdEnd)
    /\ FLeq(EnvNow.holdEnd, EnvNow.decayEnd)
    /\ FIsFinite(EnvNow.decayDuration)
    /\ FLeq(FInt(0), EnvNow.decayDuration)

\* the end times up to holdEnd alone
C17_OrderedUpToHold ==
    /\ FLeq(EnvNow.delayEnd, EnvNow.attackEnd)
    /\ FLeq(EnvNow.attackEnd, EnvNow.holdEnd)

\* samples of release rendered so far
ElapsedRelease(env) == env.currentSampleTime - env.releaseStartTimeSamples

\* apply sets finished only when the ramp value of a block's last sample is
\* 96 dB or more. The ramp is linear in e, so it has such a value at or
\* after e exactly when it has one at e or e + 1 or rises from e + 1 on.
WillReachSilence(env, e) ==
    \/ FGeq(ReleaseRamp(env, e), FInt(96))
    \/ FGeq(ReleaseRamp(env, e + 1), FInt(96))
    \/ FLess(ReleaseRamp(env, e + 1), ReleaseRamp(env, e + 2))

\* C18: every voice put in release finishes after finitely many blocks,
\* whatever the release duration and the stage the release began in. For
\* that, a released voice that is not finished must always have a sample
\* ahead on which the ramp is at 96 dB or more.
C18_ReleasedCanFinish ==
    (voice.isInRelease /\ ~voice.finished)
        => WillReachSilence(EnvNow, ElapsedRelease(EnvNow))

\* a release that rises from below 100 dB is finished by the block that
\* holds the sample releaseDuration after its start
C18_RisingReleaseFinishes ==
    (/\ AppliedInRelease
     /\ FLess(EnvBefore.releaseStartDb, FInt(100))
     /\ FIsFinite(EnvBefore.releaseStartDb)
     /\ ElapsedRelease(EnvNow) >= 2
     /\ FGeq(FInt(ElapsedRelease(EnvNow) - 1), EnvNow.releaseDuration))
        => voice.finished

\* every index of the last block was written exactly once, in the order of
\* the envelope's clock
EachIndexOnce ==
    /\ Len(lastEnv.buffer) = lastEnv.length
    /\ \A i \in 1 .. lastEnv.length : Len(lastEnv.buffer[i]) = 1
    /\ \A i \in 1 .. lastEnv.length - 1 :
            lastEnv.buffer[i][1].time < lastEnv.buffer[i + 1][1].time

\* C19: apply returns, and outside release it has then processed each of
\* the L indexes of the buffer exactly once (zeroed in delay, scaled in the
\* other stages), for every stage, every set of end times and every L >= 1.
C19_EachIndexOnce ==
    AppliedOutsideRelease =>
        /\ EachIndexOnce
        /\ \A op \in BlockOps :
                op.kind = (IF op.state = 0 THEN "set" ELSE "scale")

\* a block of three samples that ends in the unbounded sustain loop
C19_Witness ==
    /\ AppliedOutsideRelease
    /\ lastEnv.length = 3
    /\ EnvBefore.state < 4
    /\ Cardinality(StageOps(4)) >= 2
    /\ EachIndexOnce

\* C20: recalculate leaves env.state, env.currentSampleTime,
\* env.currentAttenuationDb, env.currentReleaseGain and
\* env.releaseStartTimeSamples as they were.
C20_RecalculateKeepsPosition ==
    lastEnv.op = "recalculate" =>
        /\ EnvNow.state = EnvBefore.state
        /\ EnvNow.currentSampleTime = EnvBefore.currentSampleTime
        /\ EnvNow.currentAttenuationDb = EnvBefore.currentAttenuationDb
        /\ EnvNow.currentReleaseGain = EnvBefore.currentReleaseGain
        /\ EnvNow.releaseStartTimeSamples = EnvBefore.releaseStartTimeSamples
        /\ voice.isInRelease = lastEnv.before.isInRelease
        /\ voice.finished = lastEnv.before.finished

\* a controller change in the middle of a note that moves the end times
C20_Witness ==
    /\ lastEnv.op = "recalculate"
    /\ EnvNow.state \in 1 .. 3
    /\ EnvNow.currentSampleTime > 0
    /\ EnvNow.attackEnd # EnvBefore.attackEnd
    /\ EnvNow.sustainDb # EnvBefore.sustainDb

\* the samples of the last block processed in the delay stage before delayEnd
DelayOps == {op \in StageOps(0) : FLess(FInt(op.time), EnvNow.delayEnd)}

DelaySilent ==
    /\ \A op \in DelayOps : op.kind = "set" /\ op.gain = GZero
    /\ (DelayOps # {} /\ EnvNow.state = 0)
            => EnvNow.currentAttenuationDb = FInt(100)
    /\ EnvBefore.state = 0 =>
            \A op \in BlockOps :
                op.gain # GZero => FGeq(FInt(op.time), EnvNow.delayEnd)

\* the statement for every call of apply, a released voice's included
C21_DelayIsSilentAlways == Applied => DelaySilent

\* C21 (outside release): every sample processed in the delay stage while
\* currentSampleTime < delayEnd is written as 0 and currentAttenuationDb is
\* held at 100 dB; the first sample with a multiplier other than 0 comes at
\* or after delayEnd.
C21_DelayIsSilent == AppliedOutsideRelease => DelaySilent

\* a block that holds the last sample of the delay and the attack after it
C21_Witness ==
    /\ AppliedOutsideRelease
    /\ DelayOps # {}
    /\ \E op \in StageOps(1) : op.gain # GZero /\ op.gain.kind = "finite"

\* the generators and the key of the voice
Gen == voice.modulatedGenerators
KeyOffset == 60 - voice.targetKey

\* a duration in timecents as a number of samples
SamplesOf(tc) == FFloor(FMul(timecentsToSeconds(tc), FInt(EnvNow.sampleRate)))

\* C22: attenuation = initialAttenuation / 10, sustainDb = attenuation +
\* sustainVolEnv / 10; the hold lasts the samples of holdVolEnv + (60 - key)
\* * keyNumToVolEnvHold timecents; decayDuration is the samples of
\* decayVolEnv + (60 - key) * keyNumToVolEnvDecay timecents times
\* (sustainDb - attenuation) / (100 - attenuation).
C22_KeyScaledDurations ==
    /\ EnvNow.attenuation = Rat(Gen.initialAttenuation, 10)
    /\ EnvNow.sustainDb
            = FAdd(EnvNow.attenuation, Rat(Gen.sustainVolEnv, 10))
    /\ FSub(EnvNow.holdEnd, EnvNow.attackEnd)
            = SamplesOf(Gen.holdVolEnv + KeyOffset * Gen.keyNumToVolEnvHold)
    /\ EnvNow.decayDuration
            = FMul(SamplesOf(Gen.decayVolEnv + KeyOffset * Gen.keyNumToVolEnvDecay),
                   FDiv(FSub(EnvNow.sustainDb, EnvNow.attenuation),
                        FSub(FInt(100), EnvNow.attenuation)))

\* a voice recalculated for a key below 60, whose scaling lengthens both the
\* hold and the decay
C22_Witness ==
    /\ KeyOffset > 0
    /\ Gen.keyNumToVolEnvHold > 0 /\ Gen.keyNumToVolEnvDecay > 0
    /\ FLess(SamplesOf(Gen.holdVolEnv), FSub(EnvNow.holdEnd, EnvNow.attackEnd))
    /\ FLess(FInt(0), EnvNow.decayDuration)
    /\ FLess(EnvNow.decayDuration,
             SamplesOf(Gen.decayVolEnv + KeyOffset * Gen.keyNumToVolEnvDecay))

\* previous + (target - previous) * factor
MovedTowards(previous, target, factor) ==
    FAdd(previous, FMul(FSub(target, previous), factor))

\* currentAttenuationDb after the i-th sample of the last block, outside
\* release: 100 dB in delay, the peak in attack, smoothed by the passed
\* factor in hold, decay and sustain
RECURSIVE AttenuationAfter(_)
AttenuationAfter(i) ==
    IF i = 0 THEN EnvBefore.currentAttenuationDb
    ELSE CASE lastEnv.buffer[i][1].state = 0 -> FInt(100)
           [] lastEnv.buffer[i][1].state = 1 -> EnvNow.attenuation
           [] OTHER -> MovedTowards(AttenuationAfter(i - 1),
                                    lastEnv.buffer[i][1].attenuationDb,
                                    lastEnv.smoothingFactor)

\* currentReleaseGain after the i-th sample of the last block, in release:
\* smoothed by 10 times the passed factor
RECURSIVE ReleaseGainAfter(_)
ReleaseGainAfter(i) ==
    IF i = 0 THEN EnvBefore.currentReleaseGain
    ELSE GAdd(ReleaseGainAfter(i - 1),
              GScale(FMul(FInt(10), lastEnv.smoothingFactor),
                     GAdd(decibelAttenuationToGain(
                            FAdd(lastEnv.buffer[i][1].attenuationDb,
                                 BlockDecibelOffset)),
                          GScale(FInt(0 - 1), ReleaseGainAfter(i - 1)))))

\* C23: in hold, decay and sustain the attenuation moves from its previous
\* value towards the target by (target - previous) * factor per sample, with
\* the factor passed to apply; in release the gain moves towards its target
\* in the same way with 10 times that factor.
C23_SmoothingFactors ==
    /\ AppliedOutsideRelease =>
        /\ \A i \in 1 .. lastEnv.length :
                lastEnv.buffer[i][1].state >= 2 =>
                    lastEnv.buffer[i][1].gain
                        = decibelAttenuationToGain(AttenuationAfter(i))
        /\ EnvNow.currentAttenuationDb = AttenuationAfter(lastEnv.length)
    /\ AppliedInRelease =>
        /\ \A i \in 1 .. lastEnv.length :
                lastEnv.buffer[i][1].gain = ReleaseGainAfter(i)
        /\ EnvNow.currentReleaseGain = ReleaseGainAfter(lastEnv.length)
        /\ EnvNow.currentAttenuationDb = EnvBefore.currentAttenuationDb

\* two samples of release after a sustain that had been smoothed
C23_Witness ==
    /\ AppliedInRelease
    /\ lastEnv.length >= 2
    /\ EnvNow.state = 4
    /\ EnvBefore.currentAttenuationDb # EnvNow.sustainDb
    /\ FIsFinite(EnvBefore.currentAttenuationDb)
    /\ EnvNow.currentReleaseGain.kind = "finite"
    /\ EnvNow.currentReleaseGain # EnvBefore.currentReleaseGain

\* ---------------------------------------------------------------------
\* Claims about seeking and resuming
\* ---------------------------------------------------------------------

\* the positions the replay loop of the last seek has passed
Consumed == lastCall.consumed
ConsumedSet == {Consumed[i] : i \in 1 .. Len(Consumed)}
\* the number of events of track t before the tick
CountBefore(t, ticks) ==
    Cardinality({i \in 1 .. Len(tracks[t]) : tracks[t][i].ticks < ticks})

\* C24: when the replay of a seek to tick T returns true, it has consumed
\* every event with tick < T exactly once, in non-decreasing tick order
\* across the tracks, and no event with tick >= T; each track cursor points
\* at the track's first event with tick >= T (past the end of a track that
\* has none)
C24_ReplayConsumesBeforeTarget ==
    (SeekPlayed /\ ~Nested) =>
        /\ ConsumedSet = {p \in Positions : EventOf(p).ticks < Target}
        /\ Cardinality(ConsumedSet) = Len(Consumed)
        /\ \A i, j \in 1 .. Len(Consumed) :
               i < j => EventOf(Consumed[i]).ticks <= EventOf(Consumed[j]).ticks
        /\ \A t \in TrackIndexes :
               /\ eventIndex[t] = CountBefore(t, Target)
               /\ eventIndex[t] < Len(tracks[t]) =>
                        tracks[t][eventIndex[t] + 1].ticks >= Target
               /\ \A i \in 1 .. eventIndex[t] : tracks[t][i].ticks < Target

\* a seek that consumed events of two tracks and left an event at exactly
\* the target tick
C24_Witness ==
    /\ SeekPlayed /\ ~Nested
    /\ \A t \in TrackIndexes : \E p \in ConsumedSet : p[1] = t
    /\ \E p \in Positions \ ConsumedSet : EventOf(p).ticks = Target

IsEndOfFileStop(e) == e.call = "stop" /\ e.site = "_playTo.eof"
IsNotification(e) ==
    e.to = "main" /\ e.call \in {"timeChange", "resetRendererIndexes"}

\* C25: a seek to a tick after the last event of the file is an error
\* outcome: the replay calls stop() and returns false, and the seek then
\* neither calls play() nor posts timeChange or resetRendererIndexes, and
\* issues no message of the batch; the replay returns true in every other
\* case
C25_SeekPastEndFails ==
    SeekDone =>
        /\ lastCall.ret = FALSE <=> Target > LastTick
        /\ lastCall.ret = FALSE =>
               /\ TraceIndexes(IsEndOfFileStop) # {}
               /\ TraceIndexes(IsPlay) = {}
               /\ TraceIndexes(IsNotification) = {}
               /\ TraceIndexes(IsBatch) = {}
        /\ lastCall.ret = TRUE =>
               /\ TraceIndexes(IsEndOfFileStop) = {}
               /\ TraceIndexes(IsPlay) # {}

\* a seek past the end of a file whose replay tracked a controller that
\* differs from its default
C25_Witness ==
    /\ SeekDone /\ Target > LastTick /\ ~lastCall.ret
    /\ \E c \in DOMAIN lastCall.savedControllers.rows :
           \E index \in DOMAIN lastCall.savedControllers.rows[c] :
               DirectSends(lastCall.savedControllers.rows[c], c, index)

\* the (channel, controller, value) triples of the batch of the last seek
\* for the channels 0..15: those sent to the sink, those set on the synth
SinkBatch ==
    {<<trace[i].args[1] - messageTypes.controllerChange,
       trace[i].args[2], trace[i].args[3]>> :
        i \in {j \in TraceIndexes(IsBatch) :
                  /\ trace[j].to = "sink"
                  /\ trace[j].args[1] >= messageTypes.controllerChange
                  /\ trace[j].args[1] < messageTypes.controllerChange + 16}}
SynthBatch ==
    {trace[i].args :
        i \in {j \in TraceIndexes(IsBatchControllerChange) :
                  trace[j].args[1] < 16}}

\* the tracked controllers that differ from their own entry of the table
OwnDefaultBatch ==
    UNION {{<<c, k, RowValue(lastCall.savedControllers.rows[c], k)>> :
              k \in {x \in 0 .. (RowLength(lastCall.savedControllers.rows[c]) - 1) :
                        RowValue(lastCall.savedControllers.rows[c], x)
                            # DefaultAt(x)}} :
           c \in 0 .. 15}

\* C26: the batch issued after a seek is the same in both modes: for the
\* channels 0..15 the (channel, controller, value) messages sent to the
\* sink in passthrough mode, like the controllerChange calls on the synth
\* in direct mode, are exactly the controllers whose tracked value differs
\* from that controller's own default
C26_BatchSameInBothModes ==
    (SeekPlayed /\ ~Nested) =>
        (IF sendMIDIMessages THEN SinkBatch ELSE SynthBatch) = OwnDefaultBatch

\* the direct half of C26
C26_DirectBatchOwnDefault ==
    (SeekPlayed /\ ~Nested /\ ~sendMIDIMessages) => SynthBatch = OwnDefaultBatch

\* the last handler was a seek on a paused sequencer that left events to play
SeekFromPause == SeekPlayed /\ lastCall.pausedBefore # RUndefined

\* C27: a seek ends in the playing state when events remain: setTimeTicks
\* called on a paused sequencer clears pausedTime, re-bases absoluteStartTime
\* from the replayed playedTime, not from the stale pausedTime, and installs
\* the process handler, so that the sequencer is not paused afterwards
C27_SeekLeavesPlaying ==
    SeekFromPause =>
        /\ pausedTime = RUndefined
        /\ absoluteStartTime = RSub(currentTime, RDiv(playedTime, playbackRate))
        /\ seqCurrentTime(This) = playedTime
        /\ processHandler

\* a seek on a sequencer that was paused at another time than the one the
\* replay reached, at a playback rate other than 1
C27_Witness ==
    /\ SeekFromPause /\ ~Nested
    /\ lastCall.pausedBefore # playedTime
    /\ playedTime # RZero
    /\ playbackRate # RInt(1)

PlayDone == lastCall.op = "play"
\* play() was called without resetTime before the end of the file
PlayResumes == PlayDone /\ lastCall.arg = 0 /\ ~lastCall.atEnd

IsPlayNoteOn(e) == e.to = "synth" /\ e.call = "noteOn" /\ e.site = "play"
NoteArgs(n) == <<n.channel, n.midiNote, n.velocity>>

\* C28: play() that resumes (resetTime false and currentTime < duration)
\* sends exactly one noteOn per entry of playingNotes, in list order, with
\* the stored channel, key and velocity, and installs the process handler;
\* play(true), or play() when currentTime >= duration, sets currentTime to 0
\* instead and sends no noteOn itself
C28_PlayReplaysPlayingNotes ==
    PlayDone =>
        IF PlayResumes
        THEN /\ ~Nested
             /\ Len(playingNotes) = lastCall.notesBefore
             /\ [i \in 1 .. Len(playingNotes) |-> NoteArgs(playingNotes[i])]
                    = [i \in 1 .. Len(Outer(IsPlayNoteOn)) |->
                            Outer(IsPlayNoteOn)[i].args]
             /\ \A i \in 1 .. Len(trace) :
                    trace[i].call = "noteOn" => IsPlayNoteOn(trace[i])
             /\ processHandler
        ELSE /\ Nested
             /\ \E i \in 1 .. Len(trace) :
                    trace[i].site = "currentTime" /\ trace[i].call = "stop"
             /\ playedTime = RZero
             /\ \A i \in 1 .. Len(trace) : trace[i].call # "noteOn"

\* play() resumed with two notes in playingNotes
C28_Witness ==
    /\ PlayResumes
    /\ Len(playingNotes) >= 2
    /\ Len(Outer(IsPlayNoteOn)) >= 2

\* play(true) called while a note was in playingNotes
C28_WitnessReset ==
    PlayDone /\ lastCall.arg = 1 /\ lastCall.notesBefore > 0

----------------------------------------------------------------------------
(* The state machine of the on-screen keyboard: the pointer moves over the *)
(* keys one at a time, the mouse button goes down and up, and the channel  *)
(* selector changes the channel                                            *)

KeyCalled(op, key) ==
    [op |-> op, key |-> key, channel |-> keyboard.channel, before |-> keyboard]

\* the keyboard as a handler finds it: no call made yet
HandlerStart == [keyboard EXCEPT !.calls = <<>>]

\* the sequencer and the voice are idle
InitKeyboard ==
    /\ LoadedIn({FileOf(<<<<[messageStatusByte |-> 144,
                             messageData |-> <<60, 100>>], 0>>>>)},
                {RInt(1)}, {FALSE})
    /\ voice = IdleVoice
    /\ lastEnv = NoEnvCall
    /\ KeyboardIdle
    /\ ManagerIdle

\* the pointer enters a key
MouseOver(midiNote) ==
    /\ pointer = Undefined
    /\ keyboard.mouseHeld => Len(keyboard.heldKeys) < MaxHeld
    /\ keyboard' = onmouseover(HandlerStart, midiNote)
    /\ pointer' = midiNote
    /\ lastKey' = KeyCalled("mouseover", midiNote)
    /\ UNCHANGED <<seqVars, voice, lastEnv, exportVars>>

\* the pointer leaves the key it is over
MouseOut ==
    /\ pointer \in Keys
    /\ keyboard' = onmouseout(HandlerStart, pointer)
    /\ pointer' = Undefined
    /\ lastKey' = KeyCalled("mouseout", pointer)
    /\ UNCHANGED <<seqVars, voice, lastEnv, exportVars>>

\* the button goes down: the handler of the key under the pointer, if any,
\* then the handler of the document
MouseDown ==
    /\ ~keyboard.mouseHeld
    /\ pointer \in Keys => Len(keyboard.heldKeys) < MaxHeld
    /\ keyboard' = document_onmousedown(
                        IF pointer \in Keys THEN UserNoteOn(HandlerStart, pointer)
                        ELSE HandlerStart)
    /\ lastKey' = KeyCalled("mousedown", pointer)
    /\ UNCHANGED <<seqVars, voice, lastEnv, exportVars, pointer>>

\* the button goes up
MouseUp ==
    /\ keyboard.mouseHeld
    /\ keyboard' = document_onmouseup(HandlerStart)
    /\ lastKey' = KeyCalled("mouseup", pointer)
    /\ UNCHANGED <<seqVars, voice, lastEnv, exportVars, pointer>>

\* channelSelector.onchange
SelectChannel(channel) ==
    /\ channel # keyboard.channel
    /\ keyboard' = selectChannel(HandlerStart, channel)
    /\ lastKey' = KeyCalled("selectChannel", channel)
    /\ UNCHANGED <<seqVars, voice, lastEnv, exportVars, pointer>>

NextKeyboard ==
    \/ \E midiNote \in Keys : MouseOver(midiNote)
    \/ MouseOut
    \/ MouseDown
    \/ MouseUp
    \/ \E channel \in Channels : SelectChannel(channel)

SpecKeyboard == InitKeyboard /\ [][NextKeyboard]_vars

----------------------------------------------------------------------------
(* Claims about the on-screen keyboard *)

MouseLeft == lastKey.op = "mouseout"
MouseReleased == lastKey.op = "mouseup"

\* C29: every noteOn the keyboard sends for key k on channel c is followed
\* by a noteOff for key k on the same channel c when the pointer leaves the
\* key or the mouse button is released, for every interleaving with
\* selectChannel: once the pointer has left key k no note of key k is left
\* sounding, and once the button is up no note is left sounding
C29_NoteOnGetsNoteOff ==
    /\ MouseLeft => \A n \in keyboard.sounding : n[2] # lastKey.key
    /\ MouseReleased => keyboard.sounding = {}

\* the note-offs go to the channel selected at the time of the release
C29_ReleasesSelectedChannel ==
    /\ MouseLeft => <<keyboard.channel, lastKey.key>> \notin keyboard.sounding
    /\ MouseReleased =>
            \A i \in 1 .. Len(keyboard.heldKeys) :
                <<keyboard.channel, keyboard.heldKeys[i]>>
                    \notin keyboard.sounding

\* the number of occurrences of a key in a list of held keys
Occurrences(held, key) == Cardinality({i \in 1 .. Len(held) : held[i] = key})

HeldBefore == lastKey.before.heldKeys

\* C30: a mouse-out on key k removes at most one occurrence of k from
\* heldKeys and leaves every other held key in the list, also when k is not
\* in heldKeys
C30_MouseOutRemovesOnlyItsKey ==
    MouseLeft =>
        /\ Occurrences(HeldBefore, lastKey.key)
                - Occurrences(keyboard.heldKeys, lastKey.key) \in {0, 1}
        /\ \A key \in Keys \ {lastKey.key} :
                Occurrences(keyboard.heldKeys, key) = Occurrences(HeldBefore, key)

\* the half of C30 that holds: a mouse-out on a key that is in heldKeys
\* removes its first occurrence and nothing else
C30_HeldKeyRemovedOnce ==
    (MouseLeft /\ Occurrences(HeldBefore, lastKey.key) > 0) =>
        /\ Occurrences(keyboard.heldKeys, lastKey.key)
                = Occurrences(HeldBefore, lastKey.key) - 1
        /\ \A key \in Keys \ {lastKey.key} :
                Occurrences(keyboard.heldKeys, key) = Occurrences(HeldBefore, key)

----------------------------------------------------------------------------
(* The keyboard under the synth's events: a noteon or a noteoff event of   *)
(* the synth, for any note and channel, presses or releases a key; the     *)
(* mouse is left alone                                                     *)

MaxColors == 3
Velocities == {100}
\* the note numbers an event can carry: the keys and one number on each
\* side of 0..127
NoteNumbers == Keys \cup {0 - 1, 128}

\* this.synth.eventHandler.addEvent("noteon", ...)
NoteOnEvent(midiNote, channel, velocity) ==
    /\ Len(keyboard.keyColors[midiNote]) < MaxColors
    /\ keyboard' = pressNote(HandlerStart, midiNote, channel, velocity, 1, 1)
    /\ lastKey' = [KeyCalled("noteon", midiNote) EXCEPT !.channel = channel]
    /\ UNCHANGED <<seqVars, voice, lastEnv, exportVars, pointer>>

\* this.synth.eventHandler.addEvent("noteoff", ...)
NoteOffEvent(midiNote, channel) ==
    /\ keyboard' = releaseNote(HandlerStart, midiNote, channel)
    /\ lastKey' = [KeyCalled("noteoff", midiNote) EXCEPT !.channel = channel]
    /\ UNCHANGED <<seqVars, voice, lastEnv, exportVars, pointer>>

NextKeyColors ==
    \/ \E midiNote \in Keys : \E channel \in Channels :
         \E velocity \in Velocities : NoteOnEvent(midiNote, channel, velocity)
    \/ \E midiNote \in NoteNumbers : \E channel \in Channels :
         NoteOffEvent(midiNote, channel)

SpecKeyColors == InitKeyboard /\ [][NextKeyColors]_vars

NoteReleased == lastKey.op = "noteoff" /\ lastKey.key \in Keys
StackBefore == lastKey.before.keyColors[lastKey.key]
StackNow == keyboard.keyColors[lastKey.key]
\* the channel of the release has a colour on the key's stack
HasOwnColor ==
    \E i \in 1 .. Len(StackBefore) : StackBefore[i] = channelColors(lastKey.channel)

\* C32: releaseNote(k, c) removes from the colour stack of key k only an
\* entry pushed by pressNote(k, c), the most recent one; when channel c has
\* no outstanding press on key k, the stack is unchanged
C32_ReleaseRemovesOwnColour ==
    NoteReleased =>
        /\ \A k \in Keys \ {lastKey.key} :
                keyboard.keyColors[k] = lastKey.before.keyColors[k]
        /\ IF HasOwnColor
           THEN StackNow = splice(StackBefore,
                                  findLastIndex(StackBefore,
                                                channelColors(lastKey.channel)))
           ELSE StackNow = StackBefore

\* the half of C32 that holds: a channel with a colour on the stack loses
\* its most recent one, and no other key changes
C32_OwnColourRemoved ==
    (NoteReleased /\ HasOwnColor) =>
        /\ \A k \in Keys \ {lastKey.key} :
                keyboard.keyColors[k] = lastKey.before.keyColors[k]
        /\ StackNow = splice(StackBefore,
                             findLastIndex(StackBefore,
                                           channelColors(lastKey.channel)))

\* the last event was a noteoff with a note number outside 0..127
ReleasedOutOfRange ==
    lastKey.op = "noteoff" /\ (lastKey.key > 127 \/ lastKey.key < 0)

\* C33: releaseNote with a note number outside 0..127 is a no-op: no key's
\* colour stack, class list or style changes
C33_OutOfRangeReleaseIsNoOp ==
    ReleasedOutOfRange =>
        /\ keyboard.keyColors = lastKey.before.keyColors
        /\ keyboard.pressed = lastKey.before.pressed
        /\ keyboard.background = lastKey.before.background

\* a release of note 128, and below one of note -1, while every key is
\* pressed
C33_Witness ==
    /\ ReleasedOutOfRange
    /\ lastKey.before.pressed = Keys
    /\ lastKey.key = 128

C33_WitnessBelow ==
    ReleasedOutOfRange /\ lastKey.before.pressed = Keys /\ lastKey.key < 0

----------------------------------------------------------------------------
(* The state machine of the audio export: the user opens export dialogs,   *)
(* confirms or closes them, and every export that has started ends or      *)
(* throws                                                                  *)

ExportCalled(op, id) == [op |-> op, id |-> id, before |-> manager]

\* the sequencer, the voice and the keyboard are idle
InitExport ==
    /\ LoadedIn({FileOf(<<<<[messageStatusByte |-> 144,
                             messageData |-> <<60, 100>>], 0>>>>)},
                {RInt(1)}, {FALSE})
    /\ voice = IdleVoice
    /\ lastEnv = NoEnvCall
    /\ KeyboardIdle
    /\ ManagerIdle

\* the export button: _exportAudioData
OpenDialog ==
    /\ manager.notificationCounter < MaxNotifications
    /\ manager' = _exportAudioData(manager)
    /\ lastExport' = ExportCalled("open", manager.notificationCounter)
    /\ UNCHANGED <<seqVars, voice, lastEnv, kbdVars>>

\* a click on the confirm button of a dialog that is in the document
Confirm(id) ==
    /\ id \in manager.dialogs
    /\ manager.notificationCounter < MaxNotifications
    /\ manager' = ConfirmClick(manager, id)
    /\ lastExport' = ExportCalled("confirm", id)
    /\ UNCHANGED <<seqVars, voice, lastEnv, kbdVars>>

\* a click on the close button of an open dialog
CloseDialog(id) ==
    /\ id \in manager.dialogs \cap manager.notifications
    /\ manager' = closeNotification(manager, id)
    /\ lastExport' = ExportCalled("close", id)
    /\ UNCHANGED <<seqVars, voice, lastEnv, kbdVars>>

\* the timer of closeNotification removes the element of a closed dialog
DialogRemoved(id) ==
    /\ id \in manager.dialogs \ manager.notifications
    /\ manager' = RemoveElement(manager, id)
    /\ lastExport' = ExportCalled("removed", id)
    /\ UNCHANGED <<seqVars, voice, lastEnv, kbdVars>>

\* an export reaches its end
ExportEnds(id) ==
    /\ id \in manager.exports
    /\ manager' = ExportEnd(manager, id)
    /\ lastExport' = ExportCalled("end", id)
    /\ UNCHANGED <<seqVars, voice, lastEnv, kbdVars>>

\* an export throws while it creates its synthesizer
ExportThrows(id) ==
    /\ id \in manager.exports
    /\ manager.notificationCounter < MaxNotifications
    /\ manager' = ExportThrow(manager, id)
    /\ lastExport' = ExportCalled("throw", id)
    /\ UNCHANGED <<seqVars, voice, lastEnv, kbdVars>>

NotificationIds == 0 .. (MaxNotifications - 1)

NextExport ==
    \/ OpenDialog
    \/ \E id \in NotificationIds : Confirm(id)
    \/ \E id \in NotificationIds : CloseDialog(id)
    \/ \E id \in NotificationIds : DialogRemoved(id)
    \/ \E id \in NotificationIds : ExportEnds(id)
    \/ \E id \in NotificationIds : ExportThrows(id)

SpecExport == InitExport /\ [][NextExport]_vars

----------------------------------------------------------------------------
(* Claims about the audio export *)

\* the last step started an export
ExportStarted ==
    lastExport.op = "confirm" /\ manager.exports # lastExport.before.exports

\* C34: at most one audio export is in progress at any time: while
\* isExporting is true no second export starts, for every interleaving of
\* opening export dialogs and confirming them
C34_OneExportAtATime ==
    /\ Cardinality(manager.exports) <= 1
    /\ ExportStarted => ~lastExport.before.isExporting

\* the half of C34 that holds: no dialog opens while isExporting is true,
\* and isExporting is true while an export is in progress and none has ended
C34_NoDialogWhileExporting ==
    /\ (lastExport.op = "open" /\ lastExport.before.isExporting) =>
            manager = lastExport.before
    /\ ExportStarted => manager.isExporting

====
